---------------------------- MODULE Spec2Model ----------------------------
(***************************************************************************)
(* Track matching and de-duplication engine of musicmegacomparator.        *)
(*                                                                         *)
(* Several state machines share this module:                               *)
(*   SpecDedup    the intra-playlist duplicate grouping of                 *)
(*                musiclib/playlist_cleaner.py (PlaylistCleaner,           *)
(*                DuplicateGroup) and of playlist_deduper.py               *)
(*                (find_playlist_duplicates, PlaylistDuplicate);           *)
(*   SpecCompare  PerformanceOptimizer.memory_efficient_comparison of      *)
(*                performance_optimization.py;                             *)
(*   SpecNormalize, SpecLibrary, SpecMatcher, SpecAudit                    *)
(*                text normalization, the playlist against the library     *)
(*                (with clean_playlist_with_similarity), the matcher       *)
(*                cascade and the audit of a playlist item;                *)
(*   SpecClean    the cleanup functions and their removal batches;         *)
(*   SpecPlan     plan_cleanup, apply_cleanup and rollback of              *)
(*                musiclib/cleanup.py;                                     *)
(*   SpecCache    the library and liked-song caches of PlaylistCleaner;    *)
(*   SpecPage     fetch_with_manual_pagination of                          *)
(*                simple_playlist_cleaner.py.                              *)
(*                                                                         *)
(* Python strings are TLA+ strings; a character is a string of length 1.   *)
(* Python floats that the code only compares are kept as exact integers:   *)
(* confidences are in hundredths (0.9 is 90), title_length_penalty is the  *)
(* numerator of len(title)/100, and (max-min)/max > 0.2 is                 *)
(* 5*(max-min) > max.                                                      *)
(***************************************************************************)
EXTENDS Integers, Sequences, FiniteSets, TLC

VARIABLES
    pc,                 \* "run" while the modelled function executes, then "done"
    \* ---- duplicate grouping ----
    impl,               \* "cleaner": PlaylistCleaner / "deduper": playlist_deduper.py
    playlist_tracks,    \* the argument: a sequence of tracks
    idx,                \* first loop: next position of playlist_tracks to group
    signature_groups,   \* the defaultdict(list), in insertion order
    gi,                 \* second loop: next entry of signature_groups to scan
    duplicates,         \* the returned list of duplicate groups
    \* ---- comparison ----
    source_tracks,      \* argument
    target_tracks,      \* argument
    chunk_size,         \* argument
    target_by_isrc,     \* dict: lowered isrc -> position in target_tracks
    target_by_normalized, \* dict: <<title, artist>> -> positions in target_tracks
    target_by_artist,   \* dict: lowered normalized artist -> positions
    chunks,             \* chunk_tracks(source_tracks, chunk_size): lists of positions
    chunk_idx,          \* outer loop position
    pos,                \* inner loop position inside chunks[chunk_idx]
    matches,            \* list of <<source position, target position, confidence, type>>
    missing,            \* list of source positions
    \* ---- normalization ----
    raw,                \* the string handed to normalize_text
    once,               \* normalize_text(raw)
    twice,              \* normalize_text(normalize_text(raw))
    \* ---- playlist against library ----
    lib_impl,           \* "cleaner" or "remove_library_duplicates"
    library_songs,      \* the library tracks
    lib_tracks,         \* argument playlist_tracks
    library_video_ids,  \* set of the library's video ids
    library_normalized, \* dict in insertion order: list of [key, tracks]
    processed,          \* number of playlist tracks processed
    lib_matches,        \* the list matches
    lib_result,         \* the returned value
    sim_remove_liked,   \* clean_playlist_with_similarity: argument remove_liked
    sim_deduplicate,    \* argument deduplicate_against_library
    auto_remove_high_confidence, \* argument
    sim_liked,          \* liked_songs: set of liked video ids
    set_video_ids,      \* set_video_id of each playlist track, 0 for none
    marked,             \* per track: "liked", "duplicate" or "none"
    sim_to_remove,      \* tracks_to_remove
    sim_i,              \* i of the batch loop
    sim_requests,       \* the remove_playlist_items calls made: [batch, failed]
    removal_errors,     \* list of error messages (batch numbers)
    similarity_result,  \* the dict clean_playlist_with_similarity returns
    \* ---- matcher cascade of the comparator ----
    strict_mode,        \* option strict_mode
    exact_accept,       \* the exact-accept threshold in force, in hundredths
    compared,           \* the source tracks, each with what the target holds for it
    compared_idx,       \* next source track
    result_matches,     \* ComparisonResult.matches
    missing_tracks,     \* ComparisonResult.missing_tracks
    \* ---- audit of a playlist item against the library ----
    item,               \* the source Track built from the playlist item
    audit_tracks,       \* argument lib_tracks
    confidence_of,      \* calculate_match_confidence(source, c), by position of c
    exact_idx,          \* dict: <<title, artist>> -> positions
    base_idx,           \* dict: <<base title, artist>> -> positions
    audit_result,       \* the returned (bucket, best_track, confidence)
    \* ---- playlist cleanup ----
    clean_impl,         \* which cleanup function runs
    fetched,            \* tracks: the playlist's tracks as fetched
    liked_songs,        \* set of liked video ids
    library_ids,        \* set of the library's video ids
    remove_liked,       \* argument
    remove_library,     \* argument deduplicate_against_library / remove_library_dupes
    auto_remove,        \* argument of deduplicate_playlist_internal
    dry_run,            \* argument of simple_playlist_cleaner's clean_playlist
    to_remove,          \* tracks_to_remove: list of [videoId, setVideoId]
    removed_liked,      \* counter
    removed_duplicates, \* counter
    batch_i,            \* i of `for i in range(0, len(tracks_to_remove), batch_size)`
    requests,           \* the remove_playlist_items calls made: [batch, failed]
    errors,             \* list of error messages (batch numbers)
    clean_result,       \* the returned value
    \* ---- cleanup of the library's duplicate groups (musiclib/cleanup.py) ----
    dup_groups,         \* argument groups of plan_cleanup: list of [id, duplicates]
    prefer_explicit,    \* argument
    include_group_ids,  \* argument: a list of group ids, <<>> for None
    replace_in_playlists, \* argument
    unlike_losers,      \* argument
    remote_playlists,   \* the account's playlists: list of lists of [videoId, setVideoId]
    ratings,            \* the account's rating of every video
    next_set_video_id,  \* the setVideoId the service gives to the next added item
    plan,               \* the CleanupPlan
    do_unlike,          \* argument of apply_cleanup
    do_playlists,       \* argument of apply_cleanup
    generate_undo,      \* argument of apply_cleanup
    edit_i,             \* position in plan.playlist_edits, then in the undo lists
    summary,            \* the dict apply_cleanup returns, without 'undo'
    undo,               \* the undo log
    calls,              \* the requests issued: [op, edit, ok]
    before,             \* remote_playlists when apply_cleanup was called
    rollback_result,    \* the dict rollback returns
    \* ---- caches of PlaylistCleaner ----
    ytmusic,            \* TRUE when the cleaner is authenticated (self.ytmusic is set)
    _library_cache,     \* [is_none, value]: None, or the cached list of songs
    _liked_cache,       \* [is_none, value]: None, or the cached set of video ids
    cache_log,          \* the calls made: [op, fetched, raised, value]
    \* ---- fetch_with_manual_pagination ----
    all_tracks,         \* the list of tracks collected
    seen_video_ids,     \* the set of video ids collected
    continuation,       \* the continuation token, "" for None
    page,               \* number of the page last requested
    page_log,           \* per page requested: [continuation, new_tracks, error]
    page_result         \* the returned list

dedupVars == <<impl, playlist_tracks, idx, signature_groups, gi, duplicates>>
compareVars == <<source_tracks, target_tracks, chunk_size, target_by_isrc,
                 target_by_normalized, target_by_artist, chunks, chunk_idx,
                 pos, matches, missing>>
normVars == <<raw, once, twice>>
simArgs == <<sim_remove_liked, sim_deduplicate, auto_remove_high_confidence, sim_liked,
             set_video_ids>>
simVars == <<marked, sim_to_remove, sim_i, sim_requests, removal_errors,
             similarity_result>>
libVars == <<lib_impl, library_songs, lib_tracks, library_video_ids,
             library_normalized, processed, lib_matches, lib_result, simArgs, simVars>>
matcherVars == <<strict_mode, exact_accept, compared, compared_idx,
                 result_matches, missing_tracks>>
auditVars == <<item, audit_tracks, confidence_of, exact_idx, base_idx, audit_result>>
cleanVars == <<clean_impl, fetched, liked_songs, library_ids, remove_liked,
               remove_library, auto_remove, dry_run, to_remove, removed_liked,
               removed_duplicates, batch_i, requests, errors, clean_result>>
planVars == <<dup_groups, prefer_explicit, include_group_ids, replace_in_playlists,
              unlike_losers, remote_playlists, ratings, next_set_video_id, plan,
              do_unlike, do_playlists, generate_undo, edit_i, summary, undo, calls,
              before, rollback_result>>
cacheVars == <<ytmusic, _library_cache, _liked_cache, cache_log>>
pageVars == <<all_tracks, seen_video_ids, continuation, page, page_log, page_result>>
thirdVars == <<planVars, cacheVars, pageVars>>
laterVars == <<normVars, libVars, matcherVars, auditVars, cleanVars, thirdVars>>
notNormVars == <<dedupVars, compareVars, libVars, matcherVars, auditVars, cleanVars, thirdVars>>
notLibVars == <<dedupVars, compareVars, normVars, matcherVars, auditVars, cleanVars, thirdVars>>
notMatcherVars == <<dedupVars, compareVars, normVars, libVars, auditVars, cleanVars, thirdVars>>
notAuditVars == <<dedupVars, compareVars, normVars, libVars, matcherVars, cleanVars, thirdVars>>
notCleanVars == <<dedupVars, compareVars, normVars, libVars, matcherVars, auditVars, thirdVars>>
notPlanVars == <<dedupVars, compareVars, normVars, libVars, matcherVars, auditVars,
                 cleanVars, cacheVars, pageVars>>
notCacheVars == <<dedupVars, compareVars, normVars, libVars, matcherVars, auditVars,
                  cleanVars, planVars, pageVars>>
notPageVars == <<dedupVars, compareVars, normVars, libVars, matcherVars, auditVars,
                 cleanVars, planVars, cacheVars>>
vars == <<pc, dedupVars, compareVars, laterVars>>

---------------------------------------------------------------------------
(* Bounds of the model.                                                    *)

\* longest playlist drawn from the whole track pool
MaxVaried == 3
\* longest playlist drawn from the small pool (groups of more than 5 tracks)
MaxTracks == 6
\* longest source collection of a comparison
MaxSource == 2
\* longest target collection of a comparison
MaxTarget == 2
\* largest chunk_size of a comparison
MaxChunk == 2

---------------------------------------------------------------------------
(* Sequences.                                                              *)

Range(s) == { s[i] : i \in 1..Len(s) }

Max(S) == CHOOSE x \in S : \A y \in S : y <= x

Min(S) == CHOOSE x \in S : \A y \in S : x <= y

\* all sequences over S of length at most n
SeqsUpTo(S, n) == UNION { [1..k -> S] : k \in 0..n }

---------------------------------------------------------------------------
(* Characters and strings: what re and str do on them.                     *)

UpperChars == <<"A","B","C","D","E","F","G","H","I","J","K","L","M",
                "N","O","P","Q","R","S","T","U","V","W","X","Y","Z">>

LowerChars == <<"a","b","c","d","e","f","g","h","i","j","k","l","m",
                "n","o","p","q","r","s","t","u","v","w","x","y","z">>

DigitChars == <<"0","1","2","3","4","5","6","7","8","9">>

\* \s of re
SpaceChars == {" ", "\t", "\n", "\r", "\f"}

\* \w of re
WordChars ==
    Range(UpperChars) \cup Range(LowerChars) \cup Range(DigitChars) \cup {"_"}

DigitSet == Range(DigitChars)

UpperSet == Range(UpperChars)

IsSpace(c) == c \in SpaceChars

\* \d of re
IsDigit(c) == c \in DigitSet

IsWord(c) == c \in WordChars

At(s, i) == IF i >= 1 /\ i <= Len(s) THEN SubSeq(s, i, i) ELSE ""

LowerChar(c) ==
    IF c \in UpperSet
    THEN LowerChars[CHOOSE i \in 1..Len(UpperChars) : UpperChars[i] = c]
    ELSE c

RECURSIVE lower(_)
\* str.lower()
lower(s) == IF s = "" THEN "" ELSE LowerChar(At(s, 1)) \o lower(Tail(s))

\* `w in s` of Python
Contains(s, w) ==
    \E i \in 1..(Len(s) - Len(w) + 1) : SubSeq(s, i, i + Len(w) - 1) = w

RECURSIVE lstrip(_)
lstrip(s) == IF s # "" /\ IsSpace(At(s, 1)) THEN lstrip(Tail(s)) ELSE s

RECURSIVE rstrip(_)
rstrip(s) ==
    IF s # "" /\ IsSpace(At(s, Len(s))) THEN rstrip(SubSeq(s, 1, Len(s) - 1)) ELSE s

\* str.strip()
strip(s) == rstrip(lstrip(s))

\* the position after the run of whitespace that starts at i
RECURSIVE SkipSpace(_, _)
SkipSpace(s, i) == IF IsSpace(At(s, i)) THEN SkipSpace(s, i + 1) ELSE i

\* the first position >= i holding character c, 0 when there is none
RECURSIVE IndexFrom(_, _, _)
IndexFrom(s, c, i) ==
    IF i > Len(s) THEN 0
    ELSE IF At(s, i) = c THEN i
    ELSE IndexFrom(s, c, i + 1)

\* ' '.join(parts)
RECURSIVE join(_)
join(parts) ==
    IF Len(parts) = 0 THEN ""
    ELSE IF Len(parts) = 1 THEN parts[1]
    ELSE parts[1] \o " " \o join(Tail(parts))

---------------------------------------------------------------------------
(* normalize_text: the same body in PlaylistCleaner.normalize_text and in  *)
(* playlist_deduper.normalize_text.                                        *)

\* the alternation (?:remaster|mix|...|clean) of the two version patterns
VersionWords == {"remaster", "mix", "version", "edit", "live", "acoustic", "demo",
                 "feat", "featuring", "explicit", "clean"}

\* [^)]*(?:...)[^)]* with re.IGNORECASE matches the whole of seg
HasVersionWord(seg) == \E w \in VersionWords : Contains(lower(seg), w)

\* re.sub(r'\s*\([^)]*(?:...)[^)]*\)', '', s) from position i on, and the same
\* with [ ]: a match starting at i is the whitespace run at i, the opening
\* character, everything up to the first closing character, which holds a
\* version word; matches are leftmost and do not overlap
RECURSIVE SubVersion(_, _, _, _)
SubVersion(s, i, open, close) ==
    IF i > Len(s) THEN ""
    ELSE LET j == SkipSpace(s, i)
             k == IF At(s, j) = open THEN IndexFrom(s, close, j + 1) ELSE 0
         IN  IF k > 0 /\ HasVersionWord(SubSeq(s, j + 1, k - 1))
             THEN SubVersion(s, k + 1, open, close)
             ELSE At(s, i) \o SubVersion(s, i + 1, open, close)

\* re.sub(r'\s*\(?\d{4}\)?', '', s) from position i on
RECURSIVE SubYear(_, _)
SubYear(s, i) ==
    IF i > Len(s) THEN ""
    ELSE LET j == SkipSpace(s, i)
             p == IF At(s, j) = "(" THEN j + 1 ELSE j
             e == IF At(s, p + 4) = ")" THEN p + 4 ELSE p + 3
         IN  IF \A d \in 0..3 : IsDigit(At(s, p + d))
             THEN SubYear(s, e + 1)
             ELSE At(s, i) \o SubYear(s, i + 1)

\* re.sub(r'[^\w\s]', '', s)
RECURSIVE SubPunct(_)
SubPunct(s) ==
    IF s = "" THEN ""
    ELSE (IF IsWord(At(s, 1)) \/ IsSpace(At(s, 1)) THEN At(s, 1) ELSE "")
         \o SubPunct(Tail(s))

\* re.sub(r'\s+', ' ', s) from position i on
RECURSIVE SubSpaces(_, _)
SubSpaces(s, i) ==
    IF i > Len(s) THEN ""
    ELSE IF IsSpace(At(s, i)) THEN " " \o SubSpaces(s, SkipSpace(s, i))
    ELSE At(s, i) \o SubSpaces(s, i + 1)

normalize_text(text) ==
    IF text = "" THEN ""
    ELSE LET t1 == SubVersion(text, 1, "(", ")")
             t2 == SubVersion(t1, 1, "[", "]")
             t3 == SubYear(t2, 1)
             t4 == SubPunct(t3)
             t5 == SubSpaces(t4, 1)
         IN  strip(lower(t5))

---------------------------------------------------------------------------
(* _parse_duration: the same body in PlaylistCleaner and PlaylistDuplicate.*)

\* str.split(sep) from position i on, cur being the part read so far
RECURSIVE SplitFrom(_, _, _, _)
SplitFrom(s, sep, i, cur) ==
    IF i > Len(s) THEN <<cur>>
    ELSE IF At(s, i) = sep THEN <<cur>> \o SplitFrom(s, sep, i + 1, "")
    ELSE SplitFrom(s, sep, i + 1, cur \o At(s, i))

split(s, sep) == SplitFrom(s, sep, 1, "")

RECURSIVE DigitsValue(_, _)
DigitsValue(s, acc) ==
    IF s = "" THEN acc
    ELSE DigitsValue(Tail(s),
                     10 * acc + (CHOOSE d \in 0..9 : DigitChars[d + 1] = At(s, 1)))

\* int(s) of Python on a str: surrounding whitespace, one optional sign, decimal
\* digits; anything else raises ValueError (ok = FALSE)
int(s) ==
    LET t == strip(s)
        signed == At(t, 1) \in {"+", "-"}
        digits == IF signed THEN Tail(t) ELSE t
        ok == digits # "" /\ \A i \in 1..Len(digits) : IsDigit(At(digits, i))
    IN  [ok |-> ok,
         val |-> IF ~ok THEN 0
                 ELSE IF At(t, 1) = "-" THEN 0 - DigitsValue(digits, 0)
                 ELSE DigitsValue(digits, 0)]

_parse_duration(duration_str) ==
    IF duration_str = "" \/ ~Contains(duration_str, ":") THEN 0
    ELSE LET parts == split(duration_str, ":")
             n == [i \in 1..Len(parts) |-> int(parts[i])]
         IN  IF Len(parts) = 2
             THEN IF n[1].ok /\ n[2].ok THEN n[1].val * 60 + n[2].val ELSE 0
             ELSE IF Len(parts) = 3
             THEN IF n[1].ok /\ n[2].ok /\ n[3].ok
                  THEN n[1].val * 3600 + n[2].val * 60 + n[3].val
                  ELSE 0
             ELSE 0

---------------------------------------------------------------------------
(* Duplicate grouping.  A track is a record [title, artists, duration];    *)
(* duration "" is an absent duration (None or '').  A group holds the      *)
(* positions of its tracks in playlist_tracks: the list elements of the    *)
(* code are references to the playlist's track objects.                    *)

\* get_artist_names of playlist_deduper.py: the names that are not empty
RECURSIVE get_artist_names(_)
get_artist_names(artists) ==
    IF Len(artists) = 0 THEN <<>>
    ELSE (IF artists[1] # "" THEN <<artists[1]>> ELSE <<>>)
         \o get_artist_names(Tail(artists))

\* create_track_signature keyed on the title alone
create_track_signature_TitleOnly(track) == normalize_text(track.title) \o "|"

\* PlaylistCleaner.create_track_signature
create_track_signature(track) ==
    normalize_text(track.title) \o "|" \o normalize_text(join(track.artists))

\* create_track_signature of playlist_deduper.py
deduper_create_track_signature(track) ==
    normalize_text(track.title) \o "|"
        \o normalize_text(join(get_artist_names(track.artists)))

\* any(word in title for word in words)
AnyWordIn(words, title) == \E w \in words : Contains(title, w)

\* _track_preference_score: the same body in DuplicateGroup and
\* PlaylistDuplicate; the last component is the numerator of len(title)/100
_track_preference_score(track) ==
    LET title == lower(track.title)
        live_penalty == IF AnyWordIn({"live", "concert", "tour"}, title) THEN 1 ELSE 0
        remix_penalty ==
            IF AnyWordIn({"remix", "alternate", "demo", "acoustic"}, title) THEN 1 ELSE 0
        explicit_penalty == IF Contains(title, "explicit") THEN 1 ELSE 0
        title_length_penalty == Len(title)
    IN  <<live_penalty, remix_penalty, explicit_penalty, title_length_penalty>>

\* a < b for two Python tuples of numbers of the same length
RECURSIVE TupleLess(_, _)
TupleLess(a, b) ==
    /\ Len(a) > 0
    /\ \/ a[1] < b[1]
       \/ a[1] = b[1] /\ TupleLess(Tail(a), Tail(b))

\* InsertSorted that puts x before the elements of equal key: an unstable sort
RECURSIVE InsertSorted_Unstable(_, _, _)
InsertSorted_Unstable(pl, sortedTracks, x) ==
    IF Len(sortedTracks) = 0 THEN <<x>>
    ELSE IF ~TupleLess(_track_preference_score(pl[sortedTracks[1]]),
                       _track_preference_score(pl[x]))
    THEN <<x>> \o sortedTracks
    ELSE <<sortedTracks[1]>> \o InsertSorted_Unstable(pl, Tail(sortedTracks), x)

\* list.insert of x before the first element whose key is greater than x's
RECURSIVE InsertSorted(_, _, _)
InsertSorted(pl, sortedTracks, x) ==
    IF Len(sortedTracks) = 0 THEN <<x>>
    ELSE IF TupleLess(_track_preference_score(pl[x]),
                      _track_preference_score(pl[sortedTracks[1]]))
    THEN <<x>> \o sortedTracks
    ELSE <<sortedTracks[1]>> \o InsertSorted(pl, Tail(sortedTracks), x)

\* sorted(tracks, key=self._track_preference_score): ascending and stable
RECURSIVE sorted(_, _)
sorted(pl, tracks) ==
    IF Len(tracks) = 0 THEN <<>>
    ELSE InsertSorted(pl, sorted(pl, SubSeq(tracks, 1, Len(tracks) - 1)),
                      tracks[Len(tracks)])

\* _decide_which_to_keep with tracks_to_remove = sorted_tracks[0:]
_decide_which_to_keep_RemoveAll(pl, group) ==
    IF Len(group.tracks) = 0 THEN group
    ELSE LET sorted_tracks == sorted(pl, group.tracks)
         IN  [group EXCEPT !.tracks_to_keep = <<sorted_tracks[1]>>,
                           !.tracks_to_remove = sorted_tracks]

\* _decide_which_to_keep with tracks_to_keep = sorted_tracks[:2]
_decide_which_to_keep_KeepTwo(pl, group) ==
    IF Len(group.tracks) = 0 THEN group
    ELSE LET sorted_tracks == sorted(pl, group.tracks)
         IN  [group EXCEPT !.tracks_to_keep = SubSeq(sorted_tracks, 1, 2),
                           !.tracks_to_remove = SubSeq(sorted_tracks, 3, Len(sorted_tracks))]

\* _decide_which_to_keep: the same body in DuplicateGroup and PlaylistDuplicate
_decide_which_to_keep(pl, group) ==
    IF Len(group.tracks) = 0 THEN group
    ELSE LET sorted_tracks == sorted(pl, group.tracks)
         IN  [group EXCEPT !.tracks_to_keep = <<sorted_tracks[1]>>,
                           !.tracks_to_remove = Tail(sorted_tracks)]

\* _calculate_duplicate_confidence with `count < 5` for the medium band
_calculate_duplicate_confidence_Lt5(count) ==
    IF count = 2 THEN 90
    ELSE IF count < 5 THEN 70
    ELSE 50

\* PlaylistCleaner._calculate_duplicate_confidence and
\* PlaylistDuplicate._calculate_confidence, in hundredths
_calculate_duplicate_confidence(count) ==
    IF count = 2 THEN 90
    ELSE IF count <= 5 THEN 70
    ELSE 50

\* max_dur > 0 and (max_dur - min_dur) / max_dur > 0.2 over a list of ints
DurationsDiffer(durations) ==
    /\ Len(durations) > 1
    /\ LET max_dur == Max(Range(durations))
           min_dur == Min(Range(durations))
       IN  max_dur > 0 /\ 5 * (max_dur - min_dur) > max_dur

\* [self._parse_duration(t.duration) for t in tracks if t.duration]
RECURSIVE ParsedIfPresent(_, _)
ParsedIfPresent(pl, tracks) ==
    IF Len(tracks) = 0 THEN <<>>
    ELSE (IF pl[tracks[1]].duration # ""
          THEN <<_parse_duration(pl[tracks[1]].duration)>> ELSE <<>>)
         \o ParsedIfPresent(pl, Tail(tracks))

\* PlaylistCleaner._duplicate_needs_review
_duplicate_needs_review(pl, tracks) ==
    \/ _calculate_duplicate_confidence(Len(tracks)) < 80
    \/ Len(tracks) > 3
    \/ DurationsDiffer(ParsedIfPresent(pl, tracks))

\* [d for d in [self._parse_duration(t.get('duration', '')) ...] if d > 0]
RECURSIVE ParsedPositive(_, _)
ParsedPositive(pl, tracks) ==
    IF Len(tracks) = 0 THEN <<>>
    ELSE (IF _parse_duration(pl[tracks[1]].duration) > 0
          THEN <<_parse_duration(pl[tracks[1]].duration)>> ELSE <<>>)
         \o ParsedPositive(pl, Tail(tracks))

\* PlaylistDuplicate._needs_review
_needs_review(pl, tracks, confidence) ==
    \/ confidence < 80
    \/ Len(tracks) > 3
    \/ DurationsDiffer(ParsedPositive(pl, tracks))

\* DuplicateGroup(...) with its __post_init__
DuplicateGroup(pl, signature, tracks, duplicate_count, tracks_to_keep, tracks_to_remove, confidence, review_needed) ==
    LET group == [signature |-> signature, tracks |-> tracks,
                  duplicate_count |-> duplicate_count,
                  tracks_to_keep |-> tracks_to_keep,
                  tracks_to_remove |-> tracks_to_remove,
                  confidence |-> confidence, review_needed |-> review_needed]
    IN  IF Len(tracks_to_keep) = 0 /\ Len(tracks_to_remove) = 0
        THEN _decide_which_to_keep(pl, group)
        ELSE group

\* PlaylistDuplicate.__init__
PlaylistDuplicate(pl, signature, tracks) ==
    LET confidence == _calculate_duplicate_confidence(Len(tracks))
    IN  _decide_which_to_keep(pl,
            [signature |-> signature, tracks |-> tracks,
             duplicate_count |-> Len(tracks),
             tracks_to_keep |-> <<>>, tracks_to_remove |-> <<>>,
             confidence |-> confidence,
             review_needed |-> _needs_review(pl, tracks, confidence)])

\* signature_groups[signature].append(track) on the defaultdict(list)
GroupAppend(groups, signature, track) ==
    IF \E g \in 1..Len(groups) : groups[g].signature = signature
    THEN [g \in 1..Len(groups) |->
             IF groups[g].signature = signature
             THEN [groups[g] EXCEPT !.tracks = Append(@, track)]
             ELSE groups[g]]
    ELSE Append(groups, [signature |-> signature, tracks |-> <<track>>])

---------------------------------------------------------------------------
(* The playlists the duplicate grouping is run on.                         *)

\* the fields of PlaylistTrack that the grouping reads
PlaylistTrack(title, artists, duration) ==
    [title |-> title, artists |-> artists, duration |-> duration]

\* "song|a" in studio, live, remix, explicit, lower-case and punctuated
\* spellings, with well-formed, zero, absent and unparsable durations and an
\* empty artist name; "song|a b"
TrackPool ==
    { PlaylistTrack("Song", <<"A">>, "3:00"),
      PlaylistTrack("Song (Live)", <<"A">>, "3:02"),
      PlaylistTrack("song", <<"A">>, "5:00"),
      PlaylistTrack("Song (Explicit)", <<"A">>, "4:00"),
      PlaylistTrack("Song", <<"A">>, "abc"),
      PlaylistTrack("Song!", <<"", "A">>, ""),
      PlaylistTrack("Song", <<"A">>, "0:00"),
      PlaylistTrack("Song [Remix]", <<"A">>, "0:03:00"),
      PlaylistTrack("Song", <<"A", "B">>, "3:00") }

\* the tracks of the long playlists
SmallPool ==
    { PlaylistTrack("Song", <<"A">>, "3:00"),
      PlaylistTrack("Song (Live)", <<"A">>, "3:02"),
      PlaylistTrack("Other", <<"B">>, "3:00") }

\* tracks whose title or artist normalizes to the empty string
UnusablePool ==
    { PlaylistTrack("(Live)", <<"A">>, "3:00"),
      PlaylistTrack("[Demo]", <<"A">>, "3:00"),
      PlaylistTrack("Song", <<"!!!">>, "") }

Playlists ==
    SeqsUpTo(TrackPool, MaxVaried) \cup SeqsUpTo(SmallPool, MaxTracks)
        \cup SeqsUpTo(UnusablePool, MaxVaried)

CompareIdle ==
    /\ source_tracks = <<>>
    /\ target_tracks = <<>>
    /\ chunk_size = 0
    /\ target_by_isrc = <<>>
    /\ target_by_normalized = <<>>
    /\ target_by_artist = <<>>
    /\ chunks = <<>>
    /\ chunk_idx = 0
    /\ pos = 0
    /\ matches = <<>>
    /\ missing = <<>>

NormIdle ==
    /\ raw = ""
    /\ once = ""
    /\ twice = ""

LibIdle ==
    /\ lib_impl = "none"
    /\ library_songs = <<>>
    /\ lib_tracks = <<>>
    /\ library_video_ids = {}
    /\ library_normalized = <<>>
    /\ processed = 0
    /\ lib_matches = <<>>
    /\ lib_result = <<>>
    /\ sim_remove_liked = FALSE
    /\ sim_deduplicate = FALSE
    /\ auto_remove_high_confidence = FALSE
    /\ sim_liked = {}
    /\ set_video_ids = <<>>
    /\ marked = <<>>
    /\ sim_to_remove = <<>>
    /\ sim_i = 0
    /\ sim_requests = <<>>
    /\ removal_errors = <<>>
    /\ similarity_result = <<>>

MatcherIdle ==
    /\ strict_mode = FALSE
    /\ exact_accept = 0
    /\ compared = <<>>
    /\ compared_idx = 0
    /\ result_matches = <<>>
    /\ missing_tracks = <<>>

AuditIdle ==
    /\ item = <<>>
    /\ audit_tracks = <<>>
    /\ confidence_of = <<>>
    /\ exact_idx = <<>>
    /\ base_idx = <<>>
    /\ audit_result = <<>>

CleanIdle ==
    /\ clean_impl = "none"
    /\ fetched = <<>>
    /\ liked_songs = {}
    /\ library_ids = {}
    /\ remove_liked = FALSE
    /\ remove_library = FALSE
    /\ auto_remove = FALSE
    /\ dry_run = FALSE
    /\ to_remove = <<>>
    /\ removed_liked = 0
    /\ removed_duplicates = 0
    /\ batch_i = 0
    /\ requests = <<>>
    /\ errors = <<>>
    /\ clean_result = <<>>

PlanIdle ==
    /\ dup_groups = <<>>
    /\ prefer_explicit = FALSE
    /\ include_group_ids = <<>>
    /\ replace_in_playlists = FALSE
    /\ unlike_losers = FALSE
    /\ remote_playlists = <<>>
    /\ ratings = <<>>
    /\ next_set_video_id = 0
    /\ plan = <<>>
    /\ do_unlike = FALSE
    /\ do_playlists = FALSE
    /\ generate_undo = FALSE
    /\ edit_i = 0
    /\ summary = <<>>
    /\ undo = <<>>
    /\ calls = <<>>
    /\ before = <<>>
    /\ rollback_result = <<>>

NoneValue == [is_none |-> TRUE, value |-> <<>>]

CacheIdle ==
    /\ ytmusic = FALSE
    /\ _library_cache = NoneValue
    /\ _liked_cache = NoneValue
    /\ cache_log = <<>>

PageIdle ==
    /\ all_tracks = <<>>
    /\ seen_video_ids = {}
    /\ continuation = ""
    /\ page = 0
    /\ page_log = <<>>
    /\ page_result = <<>>

ThirdIdle == PlanIdle /\ CacheIdle /\ PageIdle

LaterIdle == NormIdle /\ LibIdle /\ MatcherIdle /\ AuditIdle /\ CleanIdle /\ ThirdIdle

DedupInit ==
    /\ pc = "run"
    /\ impl \in {"cleaner", "deduper"}
    /\ playlist_tracks \in Playlists
    /\ idx = 1
    /\ signature_groups = <<>>
    /\ gi = 1
    /\ duplicates = <<>>
    /\ CompareIdle
    /\ LaterIdle

\* one iteration of `for track in playlist_tracks` of
\* PlaylistCleaner.find_playlist_internal_duplicates
InternalGroupTrack ==
    /\ pc = "run"
    /\ impl = "cleaner"
    /\ idx <= Len(playlist_tracks)
    /\ LET signature == create_track_signature(playlist_tracks[idx])
       IN  signature_groups' =
               IF signature # ""
               THEN GroupAppend(signature_groups, signature, idx)
               ELSE signature_groups
    /\ idx' = idx + 1
    /\ UNCHANGED <<pc, impl, playlist_tracks, gi, duplicates, compareVars, laterVars>>

\* one iteration of `for signature, tracks in signature_groups.items()` of
\* PlaylistCleaner.find_playlist_internal_duplicates
InternalScanGroup ==
    /\ pc = "run"
    /\ impl = "cleaner"
    /\ idx > Len(playlist_tracks)
    /\ gi <= Len(signature_groups)
    /\ LET signature == signature_groups[gi].signature
           tracks == signature_groups[gi].tracks
       IN  duplicates' =
               IF Len(tracks) > 1
               THEN Append(duplicates,
                        DuplicateGroup(playlist_tracks, signature, tracks, Len(tracks),
                            <<>>, <<>>,
                            _calculate_duplicate_confidence(Len(tracks)),
                            _duplicate_needs_review(playlist_tracks, tracks)))
               ELSE duplicates
    /\ gi' = gi + 1
    /\ UNCHANGED <<pc, impl, playlist_tracks, idx, signature_groups, compareVars, laterVars>>

\* `return duplicates` of PlaylistCleaner.find_playlist_internal_duplicates
InternalReturn ==
    /\ pc = "run"
    /\ impl = "cleaner"
    /\ idx > Len(playlist_tracks)
    /\ gi > Len(signature_groups)
    /\ pc' = "done"
    /\ UNCHANGED <<dedupVars, compareVars, laterVars>>

\* one iteration of `for track in playlist_tracks` of find_playlist_duplicates
DeduperGroupTrack ==
    /\ pc = "run"
    /\ impl = "deduper"
    /\ idx <= Len(playlist_tracks)
    /\ LET signature == deduper_create_track_signature(playlist_tracks[idx])
       IN  signature_groups' =
               IF signature # ""
               THEN GroupAppend(signature_groups, signature, idx)
               ELSE signature_groups
    /\ idx' = idx + 1
    /\ UNCHANGED <<pc, impl, playlist_tracks, gi, duplicates, compareVars, laterVars>>

\* one iteration of `for signature, tracks in signature_groups.items()` of
\* find_playlist_duplicates
DeduperScanGroup ==
    /\ pc = "run"
    /\ impl = "deduper"
    /\ idx > Len(playlist_tracks)
    /\ gi <= Len(signature_groups)
    /\ LET signature == signature_groups[gi].signature
           tracks == signature_groups[gi].tracks
       IN  duplicates' =
               IF Len(tracks) > 1
               THEN Append(duplicates, PlaylistDuplicate(playlist_tracks, signature, tracks))
               ELSE duplicates
    /\ gi' = gi + 1
    /\ UNCHANGED <<pc, impl, playlist_tracks, idx, signature_groups, compareVars, laterVars>>

\* `return duplicates` of find_playlist_duplicates
DeduperReturn ==
    /\ pc = "run"
    /\ impl = "deduper"
    /\ idx > Len(playlist_tracks)
    /\ gi > Len(signature_groups)
    /\ pc' = "done"
    /\ UNCHANGED <<dedupVars, compareVars, laterVars>>

DedupNext ==
    \/ InternalGroupTrack
    \/ InternalScanGroup
    \/ InternalReturn
    \/ DeduperGroupTrack
    \/ DeduperScanGroup
    \/ DeduperReturn

SpecDedup == DedupInit /\ [][DedupNext]_vars

---------------------------------------------------------------------------
(* Properties of the duplicate grouping (SpecDedup).                       *)

Groups == Range(duplicates)

Positions == 1..Len(playlist_tracks)

\* the number of positions of seq that hold x
Count(seq, x) == Cardinality({ i \in 1..Len(seq) : seq[i] = x })

\* C1: in every duplicate group built by find_playlist_internal_duplicates
\* (DuplicateGroup) and by find_playlist_duplicates (PlaylistDuplicate),
\* tracks_to_keep and tracks_to_remove are disjoint and together hold every
\* track of the group exactly once, and nothing else.
C1_KeepRemovePartition ==
    \A g \in Groups :
        LET kept_and_removed == g.tracks_to_keep \o g.tracks_to_remove
        IN  /\ Range(g.tracks_to_keep) \cap Range(g.tracks_to_remove) = {}
            /\ Range(kept_and_removed) = Range(g.tracks)
            /\ \A t \in Range(g.tracks) : Count(kept_and_removed, t) = 1

\* a returned group of three or more tracks whose kept track is not its first
C1_Witness ==
    /\ pc = "done"
    /\ \E g \in Groups :
          /\ Len(g.tracks) >= 3
          /\ g.tracks_to_keep # <<g.tracks[1]>>
          /\ Len(g.tracks_to_remove) >= 2

\* C2: every duplicate group has more than one track, keeps exactly one track
\* and removes the other (group size - 1) tracks.
C2_OneKeeper ==
    \A g \in Groups :
        /\ Len(g.tracks) > 1
        /\ g.duplicate_count = Len(g.tracks)
        /\ Len(g.tracks_to_keep) = 1
        /\ Len(g.tracks_to_remove) = Len(g.tracks) - 1

\* find_playlist_internal_duplicates returned a group of 2 and a group of 3
C2_Witness ==
    /\ pc = "done"
    /\ impl = "cleaner"
    /\ \E g \in Groups : Len(g.tracks) = 2
    /\ \E g \in Groups : Len(g.tracks) = 3

\* the signature as the claim states it: normalized title, '|', normalized
\* joined artists
ClaimSignature(track) ==
    normalize_text(track.title) \o "|" \o normalize_text(join(track.artists))

\* ClaimSignature of every track of the pools
ClaimSignatureOf == [t \in TrackPool \cup SmallPool \cup UnusablePool |-> ClaimSignature(t)]

Score(t) == _track_preference_score(playlist_tracks[t])

\* C4: in every duplicate group no removed track has a strictly smaller
\* preference tuple than the kept track, and a removed track with the same
\* tuple as the kept track comes after it in playlist order.
C4_KeeperIsFirstOfStableSort ==
    \A g \in Groups :
        \A k \in Range(g.tracks_to_keep) :
            \A r \in Range(g.tracks_to_remove) :
                /\ ~TupleLess(Score(r), Score(k))
                /\ Score(r) = Score(k) => k < r

\* a group whose kept track is not the first of the group, is preferred to a
\* live version and ties with a later track
C4_Witness ==
    /\ pc = "done"
    /\ \E g \in Groups :
          LET k == g.tracks_to_keep[1]
          IN  /\ k # g.tracks[1]
              /\ \E r \in Range(g.tracks_to_remove) : Score(r) = Score(k)
              /\ \E r \in Range(g.tracks_to_remove) : TupleLess(Score(k), Score(r))

\* C5: the confidence of a duplicate group is 0.9 for 2 tracks, 0.7 for 3 to 5
\* tracks and 0.5 for more than 5 tracks.
C5_ConfidenceBySize ==
    \A g \in Groups :
        /\ Len(g.tracks) = 2 => g.confidence = 90
        /\ (Len(g.tracks) >= 3 /\ Len(g.tracks) <= 5) => g.confidence = 70
        /\ Len(g.tracks) > 5 => g.confidence = 50

\* a group of five tracks and, in another run, of more than five
C5_Witness ==
    /\ pc = "done"
    /\ \E g \in Groups : Len(g.tracks) > 5 /\ g.confidence = 50

\* s is all decimal digits
AllDigits(s) == \A i \in 1..Len(s) : IsDigit(At(s, i))

\* a duration string of the form M:SS or H:MM:SS
WellFormed(s) ==
    LET parts == split(s, ":")
    IN  /\ Len(parts) \in {2, 3}
        /\ parts[1] # "" /\ AllDigits(parts[1])
        /\ \A i \in 2..Len(parts) : Len(parts[i]) = 2 /\ AllDigits(parts[i])

\* a duration string that _parse_duration parses: two or three ':'-separated
\* integers
Parsable(s) ==
    LET parts == split(s, ":")
    IN  /\ Len(parts) \in {2, 3}
        /\ \A i \in 1..Len(parts) : int(parts[i]).ok

\* the seconds of the durations of the group that are present
PresentSeconds(g) ==
    { _parse_duration(playlist_tracks[t].duration) :
        t \in { u \in Range(g.tracks) : playlist_tracks[u].duration # "" } }

\* (max - min)/max > 0.20 over a set of seconds
VariesMoreThanFifth(S) ==
    /\ S # {}
    /\ Max(S) > 0
    /\ 5 * (Max(S) - Min(S)) > Max(S)

ReviewRule(g) ==
    (\A t \in Range(g.tracks) :
        \/ playlist_tracks[t].duration = ""
        \/ WellFormed(playlist_tracks[t].duration))
    => (g.review_needed <=>
            \/ g.confidence < 80
            \/ Len(g.tracks) > 3
            \/ VariesMoreThanFifth(PresentSeconds(g)))

\* C6: in a duplicate group whose duration strings are all absent or well
\* formed (M:SS, H:MM:SS), review_needed is true if and only if confidence < 0.8,
\* or the group has more than 3 tracks, or (max - min)/max over the parsed
\* durations is greater than 0.20.
C6_ReviewIff == \A g \in Groups : ReviewRule(g)

\* the rule of C6 in the groups of PlaylistCleaner.find_playlist_internal_duplicates
ReviewIffInCleaner == impl = "cleaner" => \A g \in Groups : ReviewRule(g)

\* C7: a group of 2 tracks of which at most one has a parsable duration has
\* review_needed = false: absent and unparsable durations are left out of the
\* variance check, which needs two parsed durations to trigger.
C7_UnparsableLeftOut ==
    \A g \in Groups :
        (/\ Len(g.tracks) = 2
         /\ Cardinality({ t \in Range(g.tracks) :
                            Parsable(playlist_tracks[t].duration) }) <= 1)
        => ~g.review_needed

\* the rule of C7 in the groups of find_playlist_duplicates
UnparsableLeftOutInDeduper ==
    impl = "deduper" =>
        \A g \in Groups :
            (/\ Len(g.tracks) = 2
             /\ Cardinality({ t \in Range(g.tracks) :
                                Parsable(playlist_tracks[t].duration) }) <= 1)
            => ~g.review_needed

\* the track's signature has an empty normalized title or an empty normalized
\* artist string
InvalidSignature(track) ==
    \/ normalize_text(track.title) = ""
    \/ normalize_text(join(track.artists)) = ""

\* C14: a track whose normalized title or normalized artist string is empty is
\* in no duplicate group, and so is never proposed for removal.
C14_OnlyValidSignaturesGrouped ==
    \A g \in Groups :
        \A i \in 1..Len(g.tracks) : ~InvalidSignature(playlist_tracks[g.tracks[i]])

---------------------------------------------------------------------------
(* PerformanceOptimizer.memory_efficient_comparison.  A track is a record  *)
(* of the attributes the function reads: isrc ("" when the track has       *)
(* none), normalized_title, normalized_artist.  Tracks are named by their  *)
(* position in source_tracks or target_tracks.                             *)

Track(isrc, normalized_title, normalized_artist) ==
    [isrc |-> isrc, normalized_title |-> normalized_title,
     normalized_artist |-> normalized_artist]

\* two recordings with the same ISRC in different case and different titles,
\* a third with the first one's title and artist and no ISRC, and another song
LibraryPool ==
    { Track("GB1", "bohemian", "queen"),
      Track("gb1", "bohemian remastered", "queen"),
      Track("", "bohemian", "queen"),
      Track("US2", "imagine", "lennon") }

\* the confidences the matcher may report, in hundredths
FuzzyConfidences == {85}

\* limited_targets = target_tracks[:min(5000, len(target_tracks))]
BroadSearchLimit == 5000

NoMatch == [found |-> FALSE]

\* matcher.find_best_match(source_track, candidates): None, or one of the
\* candidates with a confidence
find_best_match(source_track, candidates) ==
    {NoMatch} \cup
    { [found |-> TRUE, match |-> c, confidence |-> f] :
        c \in Range(candidates), f \in FuzzyConfidences }

\* d[key] = value on a dict d
DictSet(d, key, value) ==
    [k \in DOMAIN d \cup {key} |-> IF k = key THEN value ELSE d[k]]

\* d.setdefault(key, []).append(value) on a dict d of lists
DictAppend(d, key, value) ==
    [k \in DOMAIN d \cup {key} |->
        IF k = key
        THEN (IF key \in DOMAIN d THEN Append(d[key], value) ELSE <<value>>)
        ELSE d[k]]

\* build_artist_index over the first n tracks
RECURSIVE build_artist_index(_, _)
build_artist_index(tracks, n) ==
    IF n = 0 THEN <<>>
    ELSE DictAppend(build_artist_index(tracks, n - 1),
                    lower(tracks[n].normalized_artist), n)

\* target_by_isrc[track.isrc] = track, the key not lowered
RECURSIVE IsrcIndex_KeyNotLowered(_, _)
IsrcIndex_KeyNotLowered(tracks, n) ==
    IF n = 0 THEN <<>>
    ELSE IF tracks[n].isrc # ""
    THEN DictSet(IsrcIndex_KeyNotLowered(tracks, n - 1), tracks[n].isrc, n)
    ELSE IsrcIndex_KeyNotLowered(tracks, n - 1)

\* target_by_isrc after the first n iterations of `for track in target_tracks`
RECURSIVE IsrcIndex(_, _)
IsrcIndex(tracks, n) ==
    IF n = 0 THEN <<>>
    ELSE IF tracks[n].isrc # ""
    THEN DictSet(IsrcIndex(tracks, n - 1), lower(tracks[n].isrc), n)
    ELSE IsrcIndex(tracks, n - 1)

\* target_by_normalized after the first n iterations
RECURSIVE NormalizedIndex(_, _)
NormalizedIndex(tracks, n) ==
    IF n = 0 THEN <<>>
    ELSE DictAppend(NormalizedIndex(tracks, n - 1),
                    <<tracks[n].normalized_title, tracks[n].normalized_artist>>, n)

\* chunk_tracks whose slices are tracks[i:i + chunk_size + 1]
RECURSIVE chunk_tracks_Overlapping(_, _, _)
chunk_tracks_Overlapping(n, i, size) ==
    IF i >= n THEN <<>>
    ELSE <<[k \in 1..((IF i + size + 1 < n THEN i + size + 1 ELSE n) - i) |-> i + k]>>
         \o chunk_tracks_Overlapping(n, i + size, size)

\* chunk_tracks on a list of n tracks, from offset i of range(0, n, size) on:
\* the slices tracks[i:i + size], as lists of positions
RECURSIVE chunk_tracks(_, _, _)
chunk_tracks(n, i, size) ==
    IF i >= n THEN <<>>
    ELSE <<[k \in 1..((IF i + size < n THEN i + size ELSE n) - i) |-> i + k]>>
         \o chunk_tracks(n, i + size, size)

DedupIdle ==
    /\ impl = "none"
    /\ playlist_tracks = <<>>
    /\ idx = 0
    /\ signature_groups = <<>>
    /\ gi = 0
    /\ duplicates = <<>>

CompareInit ==
    /\ pc = "index"
    /\ source_tracks \in SeqsUpTo(LibraryPool, MaxSource)
    /\ target_tracks \in SeqsUpTo(LibraryPool, MaxTarget)
    /\ chunk_size \in 1..MaxChunk
    /\ target_by_isrc = <<>>
    /\ target_by_normalized = <<>>
    /\ target_by_artist = <<>>
    /\ chunks = <<>>
    /\ chunk_idx = 0
    /\ pos = 0
    /\ matches = <<>>
    /\ missing = <<>>
    /\ DedupIdle
    /\ LaterIdle

\* lines 123-141: the indices over target_tracks and the chunks of source_tracks
BuildIndices ==
    /\ pc = "index"
    /\ target_by_isrc' = IsrcIndex(target_tracks, Len(target_tracks))
    /\ target_by_normalized' = NormalizedIndex(target_tracks, Len(target_tracks))
    /\ target_by_artist' = build_artist_index(target_tracks, Len(target_tracks))
    /\ chunks' = chunk_tracks(Len(source_tracks), 0, chunk_size)
    /\ chunk_idx' = 1
    /\ pos' = 1
    /\ pc' = "loop"
    /\ UNCHANGED <<source_tracks, target_tracks, chunk_size, matches, missing, dedupVars, laterVars>>

InLoop == pc = "loop" /\ chunk_idx <= Len(chunks)

\* the source track of the current iteration, by position
Current == chunks[chunk_idx][pos]

IsrcHit(s) ==
    /\ source_tracks[s].isrc # ""
    /\ lower(source_tracks[s].isrc) \in DOMAIN target_by_isrc

ExactKey(s) == <<source_tracks[s].normalized_title, source_tracks[s].normalized_artist>>

ExactHit(s) == ExactKey(s) \in DOMAIN target_by_normalized

\* target_by_artist.get(source_track.normalized_artist.lower(), [])
ArtistCandidates(s) ==
    IF lower(source_tracks[s].normalized_artist) \in DOMAIN target_by_artist
    THEN target_by_artist[lower(source_tracks[s].normalized_artist)]
    ELSE <<>>

\* target_tracks[:min(5000, len(target_tracks))], by position
LimitedTargets ==
    [k \in 1..(IF BroadSearchLimit < Len(target_tracks)
               THEN BroadSearchLimit ELSE Len(target_tracks)) |-> k]

MatchEntry(s, t, confidence, match_type) ==
    [source |-> s, target |-> t, confidence |-> confidence, match_type |-> match_type]

\* the next iteration of `for source_track in chunk`, or of the chunk loop
Advance ==
    IF pos < Len(chunks[chunk_idx])
    THEN pos' = pos + 1 /\ chunk_idx' = chunk_idx
    ELSE pos' = 1 /\ chunk_idx' = chunk_idx + 1

LoopFrame ==
    UNCHANGED <<pc, source_tracks, target_tracks, chunk_size, target_by_isrc,
                target_by_normalized, target_by_artist, chunks, dedupVars, laterVars>>

\* an ISRC match that takes its target out of the comparison: a source track
\* whose target is already matched goes to missing
MatchIsrc_TargetTaken ==
    /\ InLoop
    /\ IsrcHit(Current)
    /\ LET match == target_by_isrc[lower(source_tracks[Current].isrc)]
       IN  IF \E i \in 1..Len(matches) : matches[i].target = match
           THEN missing' = Append(missing, Current) /\ UNCHANGED matches
           ELSE /\ matches' = Append(matches, MatchEntry(Current, match, 100, "isrc"))
                /\ UNCHANGED missing
    /\ Advance
    /\ LoopFrame

\* an iteration that ends at the `continue` of the ISRC match
MatchIsrc ==
    /\ InLoop
    /\ IsrcHit(Current)
    /\ matches' = Append(matches,
           MatchEntry(Current, target_by_isrc[lower(source_tracks[Current].isrc)],
                      100, "isrc"))
    /\ Advance
    /\ UNCHANGED missing
    /\ LoopFrame

\* an iteration that ends at the `continue` of the exact normalized match
MatchExact ==
    /\ InLoop
    /\ ~IsrcHit(Current)
    /\ ExactHit(Current)
    /\ matches' = Append(matches,
           MatchEntry(Current, target_by_normalized[ExactKey(Current)][1], 95, "exact"))
    /\ Advance
    /\ UNCHANGED missing
    /\ LoopFrame

\* the fuzzy match within the artist group tried before the exact lookup
MatchFuzzyArtist_BeforeExact ==
    /\ InLoop
    /\ ~IsrcHit(Current)
    /\ ArtistCandidates(Current) # <<>>
    /\ \E best_match \in find_best_match(Current, ArtistCandidates(Current)) :
          /\ best_match.found
          /\ matches' = Append(matches,
                 MatchEntry(Current, best_match.match, best_match.confidence, "fuzzy"))
    /\ Advance
    /\ UNCHANGED missing
    /\ LoopFrame

\* an iteration that ends at the `continue` of the fuzzy match within the
\* artist group
MatchFuzzyArtist ==
    /\ InLoop
    /\ ~IsrcHit(Current)
    /\ ~ExactHit(Current)
    /\ ArtistCandidates(Current) # <<>>
    /\ \E best_match \in find_best_match(Current, ArtistCandidates(Current)) :
          /\ best_match.found
          /\ matches' = Append(matches,
                 MatchEntry(Current, best_match.match, best_match.confidence, "fuzzy"))
    /\ Advance
    /\ UNCHANGED missing
    /\ LoopFrame

\* the iteration reaches `if not match_found`: no ISRC hit, no exact hit, and
\* no artist candidates or no best match among them
ReachesBroadSearch ==
    /\ InLoop
    /\ ~IsrcHit(Current)
    /\ ~ExactHit(Current)
    /\ \/ ArtistCandidates(Current) = <<>>
       \/ \E best_match \in find_best_match(Current, ArtistCandidates(Current)) :
             ~best_match.found

\* a broader search that records its match and the track as missing too
MatchBroad_AlsoMissing ==
    /\ ReachesBroadSearch
    /\ \E best_match \in find_best_match(Current, LimitedTargets) :
          /\ best_match.found
          /\ matches' = Append(matches,
                 MatchEntry(Current, best_match.match, best_match.confidence, "fuzzy"))
    /\ Advance
    /\ missing' = Append(missing, Current)
    /\ LoopFrame

\* an iteration whose broader search finds a match
MatchBroad ==
    /\ ReachesBroadSearch
    /\ \E best_match \in find_best_match(Current, LimitedTargets) :
          /\ best_match.found
          /\ matches' = Append(matches,
                 MatchEntry(Current, best_match.match, best_match.confidence, "fuzzy"))
    /\ Advance
    /\ UNCHANGED missing
    /\ LoopFrame

\* the broader search finds nothing and the track is not recorded
MissBroad_NotRecorded ==
    /\ ReachesBroadSearch
    /\ \E best_match \in find_best_match(Current, LimitedTargets) :
          ~best_match.found
    /\ Advance
    /\ UNCHANGED <<matches, missing>>
    /\ LoopFrame

\* an iteration whose broader search finds nothing: missing.append(source_track)
MissBroad ==
    /\ ReachesBroadSearch
    /\ \E best_match \in find_best_match(Current, LimitedTargets) :
          ~best_match.found
    /\ missing' = Append(missing, Current)
    /\ Advance
    /\ UNCHANGED matches
    /\ LoopFrame

\* `return matches, missing`
CompareReturn ==
    /\ pc = "loop"
    /\ chunk_idx > Len(chunks)
    /\ pc' = "done"
    /\ UNCHANGED <<compareVars, dedupVars, laterVars>>

CompareNext ==
    \/ BuildIndices
    \/ MatchIsrc
    \/ MatchExact
    \/ MatchFuzzyArtist
    \/ MatchBroad
    \/ MissBroad
    \/ CompareReturn

SpecCompare == CompareInit /\ [][CompareNext]_vars

---------------------------------------------------------------------------
(* Properties of the comparison (SpecCompare).                             *)

SourcePositions == 1..Len(source_tracks)

TargetPositions == 1..Len(target_tracks)

MatchesOf(s) == { i \in 1..Len(matches) : matches[i].source = s }

\* the ISRC of source track s equals, case-insensitively, that of target track t
SameIsrc(s, t) ==
    /\ source_tracks[s].isrc # ""
    /\ lower(source_tracks[s].isrc) = lower(target_tracks[t].isrc)

\* C8: after the comparison, a source track whose ISRC equals case-insensitively
\* the ISRC of a target track is matched, with match_type isrc and confidence
\* 1.0, to a target track of that ISRC, whatever the titles and artists are.
C8_IsrcMatch ==
    pc = "done" =>
        \A s \in SourcePositions :
            (\E t \in TargetPositions : SameIsrc(s, t)) =>
                /\ MatchesOf(s) # {}
                /\ \A i \in MatchesOf(s) :
                      /\ matches[i].match_type = "isrc"
                      /\ matches[i].confidence = 100
                      /\ SameIsrc(s, matches[i].target)
                /\ \A i \in 1..Len(missing) : missing[i] # s

\* a source track matched to a target track whose ISRC differs from its own in
\* case only and whose title differs, no other target track sharing its title
C8_Witness ==
    /\ pc = "done"
    /\ \E s \in SourcePositions, t \in TargetPositions :
          /\ SameIsrc(s, t)
          /\ source_tracks[s].isrc # target_tracks[t].isrc
          /\ \A u \in TargetPositions :
                source_tracks[s].normalized_title # target_tracks[u].normalized_title
          /\ \E i \in MatchesOf(s) :
                matches[i].target = t /\ matches[i].match_type = "isrc"

\* the exact normalized (title, artist) key of source track s is in the target
SameKey(s, t) ==
    /\ source_tracks[s].normalized_title = target_tracks[t].normalized_title
    /\ source_tracks[s].normalized_artist = target_tracks[t].normalized_artist

\* C9: a source track with an ISRC hit in the target is never reported as exact
\* or fuzzy, and a source track whose exact normalized key is in the target is
\* never reported as fuzzy or missing.
C9_Cascade ==
    \A s \in SourcePositions :
        /\ (\E t \in TargetPositions : SameIsrc(s, t)) =>
              \A i \in MatchesOf(s) : matches[i].match_type \notin {"exact", "fuzzy"}
        /\ (\E t \in TargetPositions : SameKey(s, t)) =>
              /\ \A i \in MatchesOf(s) : matches[i].match_type # "fuzzy"
              /\ \A i \in 1..Len(missing) : missing[i] # s

\* a finished comparison that reported one track by ISRC although its exact key
\* is in the target too, and another track as exact
C9_Witness ==
    /\ pc = "done"
    /\ \E s \in SourcePositions :
          /\ \E t \in TargetPositions : SameIsrc(s, t)
          /\ \E t \in TargetPositions : SameKey(s, t) /\ ~SameIsrc(s, t)
          /\ \E i \in MatchesOf(s) : matches[i].match_type = "isrc"
    /\ \E i \in 1..Len(matches) : matches[i].match_type = "exact"

\* C10: the missing list is a subsequence of the source list: its tracks are
\* source tracks, in source order, none repeated, for every chunk_size >= 1.
C10_MissingInSourceOrder ==
    /\ \A i \in 1..Len(missing) : missing[i] \in SourcePositions
    /\ \A i, j \in 1..Len(missing) : i < j => missing[i] < missing[j]

\* a finished comparison over several chunks with two missing tracks
C10_Witness ==
    /\ pc = "done"
    /\ Len(chunks) >= 2
    /\ Len(missing) >= 2

\* source and target share no ISRC and no normalized (title, artist) key
ZeroOverlap ==
    \A s \in SourcePositions, t \in TargetPositions :
        ~SameIsrc(s, t) /\ ~SameKey(s, t)

\* the matcher accepted no fuzzy candidate for any source track
NoFuzzyAccepted ==
    \A i \in 1..Len(matches) : matches[i].match_type # "fuzzy"

\* C11: when source and target share no ISRC and no normalized key and the
\* matcher accepts no fuzzy candidate, the finished comparison returns no match
\* and a missing list that is the whole source list in its original order.
C11_ZeroOverlapAllMissing ==
    (pc = "done" /\ ZeroOverlap /\ NoFuzzyAccepted) =>
        /\ matches = <<>>
        /\ missing = [k \in SourcePositions |-> k]

\* a finished comparison of two source tracks against a non-empty target with
\* no overlap, the matcher having turned every candidate down
C11_Witness ==
    /\ pc = "done"
    /\ Len(source_tracks) >= 2
    /\ Len(target_tracks) >= 1
    /\ ZeroOverlap
    /\ NoFuzzyAccepted
    /\ missing = [k \in SourcePositions |-> k]

\* C21: matching is many-to-one: a matched target stays in the indices, so
\* after the comparison every source track with an ISRC hit is matched to the
\* target the ISRC index holds for it, and every source track without one whose
\* exact key is in the target is matched to the first target of that key,
\* whether or not an earlier source track was matched to that target.
C21_ManyToOne ==
    pc = "done" =>
        \A s \in SourcePositions :
            /\ IsrcHit(s) =>
                  \E i \in MatchesOf(s) :
                      matches[i].target = target_by_isrc[lower(source_tracks[s].isrc)]
            /\ (~IsrcHit(s) /\ ExactHit(s)) =>
                  \E i \in MatchesOf(s) :
                      matches[i].target = target_by_normalized[ExactKey(s)][1]

\* a finished comparison in which two distinct source tracks, one by ISRC, are
\* matched to the same target track
C21_Witness ==
    /\ pc = "done"
    /\ \E i, j \in 1..Len(matches) :
          /\ i < j
          /\ matches[i].source # matches[j].source
          /\ matches[i].target = matches[j].target
          /\ matches[j].match_type = "isrc"

\* number of entries of matches and of missing for the source track s
Classifications(s) ==
    Cardinality(MatchesOf(s)) + Cardinality({ i \in 1..Len(missing) : missing[i] = s })

\* C22: after memory_efficient_comparison every source track is the source of
\* exactly one entry of matches or is exactly one entry of missing, never
\* both and never neither; during the loop no track is classified twice.
C22_ClassifiedOnce ==
    /\ \A s \in SourcePositions : Classifications(s) <= 1
    /\ pc = "done" => \A s \in SourcePositions : Classifications(s) = 1

\* a finished comparison over two chunks that decided one track by a fuzzy
\* stage and left the other missing
C22_Witness ==
    /\ pc = "done"
    /\ Len(chunks) = 2
    /\ Len(missing) = 1
    /\ Len(matches) = 1
    /\ matches[1].match_type = "fuzzy"
    /\ \A s \in SourcePositions : Classifications(s) = 1

---------------------------------------------------------------------------
(* normalize_text applied to a string and again to its result.            *)

\* longest string over NormChars that is enumerated
MaxText == 5

\* a digit, a punctuation character, a letter (upper case), a space
NormChars == {"1", ",", "A", " "}

\* titles and artist names with version markers, years and numbers
TitlePool ==
    { "Song (Live)", "Song [2011 Remaster]", "1999", "Song (1999)",
      "10,000 Days", "AC/DC", "  A  B ", "Mr. Brightside - Remix",
      "Song (feat. B) [Clean]", "(Live)", "19-2000" }

RECURSIVE StringsUpTo(_)
StringsUpTo(n) ==
    IF n = 0 THEN {""}
    ELSE LET shorter == StringsUpTo(n - 1)
         IN  shorter \cup { s \o c : s \in shorter, c \in NormChars }

NormInputs == StringsUpTo(MaxText) \cup TitlePool

NormInit ==
    /\ pc = "raw"
    /\ raw \in NormInputs
    /\ once = ""
    /\ twice = ""
    /\ DedupIdle
    /\ CompareIdle
    /\ LibIdle
    /\ MatcherIdle
    /\ AuditIdle
    /\ CleanIdle
    /\ ThirdIdle

\* once = normalize_text(raw)
NormalizeOnce ==
    /\ pc = "raw"
    /\ once' = normalize_text(raw)
    /\ pc' = "once"
    /\ UNCHANGED <<raw, twice, notNormVars>>

\* twice = normalize_text(once)
NormalizeAgain ==
    /\ pc = "once"
    /\ twice' = normalize_text(once)
    /\ pc' = "twice"
    /\ UNCHANGED <<raw, once, notNormVars>>

NormNext ==
    \/ NormalizeOnce
    \/ NormalizeAgain

SpecNormalize == NormInit /\ [][NormNext]_vars

\* C12: normalization is idempotent: normalizing the result of normalize_text
\* again returns the same string.
C12_Idempotent ==
    pc = "twice" => twice = once

\* on strings that hold no digit the second normalization changes nothing
IdempotentWithoutDigits ==
    (pc = "twice" /\ \A i \in 1..Len(raw) : ~IsDigit(At(raw, i))) => twice = once

---------------------------------------------------------------------------
(* difflib.SequenceMatcher(None, a, b).ratio(), as similarity_score calls  *)
(* it: no junk, and no popular-character heuristic below 200 characters.   *)

\* length of the common run of a from i and b from j, inside a[..ahi], b[..bhi]
RECURSIVE CommonRun(_, _, _, _, _, _)
CommonRun(a, b, i, j, ahi, bhi) ==
    IF i > ahi \/ j > bhi \/ At(a, i) # At(b, j) THEN 0
    ELSE 1 + CommonRun(a, b, i + 1, j + 1, ahi, bhi)

\* find_longest_match on a[alo..ahi], b[blo..bhi]: the longest common block,
\* the one that starts earliest in a, and of those the earliest in b
find_longest_match(a, b, alo, ahi, blo, bhi) ==
    LET blocks == { [i |-> i, j |-> j, k |-> CommonRun(a, b, i, j, ahi, bhi)] :
                        i \in alo..ahi, j \in blo..bhi }
        best == Max({ m.k : m \in blocks })
        longest == { m \in blocks : m.k = best }
        first_i == Min({ m.i : m \in longest })
        first_j == Min({ m.j : m \in { n \in longest : n.i = first_i } })
    IN  [i |-> first_i, j |-> first_j, k |-> best]

\* the sum of the sizes of get_matching_blocks over a[alo..ahi], b[blo..bhi]
RECURSIVE MatchingSize(_, _, _, _, _, _)
MatchingSize(a, b, alo, ahi, blo, bhi) ==
    IF alo > ahi \/ blo > bhi THEN 0
    ELSE LET m == find_longest_match(a, b, alo, ahi, blo, bhi)
         IN  IF m.k = 0 THEN 0
             ELSE m.k + MatchingSize(a, b, alo, m.i - 1, blo, m.j - 1)
                      + MatchingSize(a, b, m.i + m.k, ahi, m.j + m.k, bhi)

\* a ratio num / den, den > 0
Ratio(num, den) == [num |-> num, den |-> den]

RatioGeq(x, y) == x.num * y.den >= y.num * x.den

\* ratio(): 2.0 * matches / (len(a) + len(b)), and 1.0 for two empty strings
similarity_score(text1, text2) ==
    IF Len(text1) + Len(text2) = 0 THEN Ratio(1, 1)
    ELSE Ratio(2 * MatchingSize(text1, text2, 1, Len(text1), 1, Len(text2)),
               Len(text1) + Len(text2))

---------------------------------------------------------------------------
(* PlaylistCleaner.find_library_duplicates_with_similarity and             *)
(* remove_library_duplicates.find_library_matches.  A library track is the *)
(* dict the function reads: videoId ("" when absent), title, the names of  *)
(* artists.  Tracks are named by their positions in the two lists.         *)

LibraryTrack(videoId, title, artists) ==
    [videoId |-> videoId, title |-> title, artists |-> artists]

\* default of the argument similarity_threshold: 0.85
similarity_threshold == Ratio(85, 100)

\* f"{title}|{artist_norm}"
LookupKey(title, artist_norm) == title \o "|" \o artist_norm

\* position of key in the dict d (a list of [key, tracks]), 0 when absent
RECURSIVE KeyIndex(_, _, _)
KeyIndex(d, key, i) ==
    IF i > Len(d) THEN 0
    ELSE IF d[i].key = key THEN i
    ELSE KeyIndex(d, key, i + 1)

\* `if key not in d: d[key] = []` then `d[key].append(track)`
NormalizedAppend(d, key, track) ==
    LET i == KeyIndex(d, key, 1)
    IN  IF i = 0 THEN Append(d, [key |-> key, tracks |-> <<track>>])
        ELSE [d EXCEPT ![i].tracks = Append(@, track)]

\* `for artist in artists:` of the index loop, for library track n
RECURSIVE IndexArtists(_, _, _, _)
IndexArtists(d, title, artists, n) ==
    IF artists = <<>> THEN d
    ELSE IndexArtists(NormalizedAppend(d, LookupKey(title, normalize_text(Head(artists))), n),
                      title, Tail(artists), n)

\* library_normalized after the first n iterations of `for track in library_songs`
RECURSIVE LibraryNormalized(_, _)
LibraryNormalized(songs, n) ==
    IF n = 0 THEN <<>>
    ELSE LET d == LibraryNormalized(songs, n - 1)
             title == normalize_text(songs[n].title)
             artists == get_artist_names(songs[n].artists)
         IN  IF title # "" /\ artists # <<>>
             THEN IndexArtists(d, title, artists, n)
             ELSE d

\* {track.get('videoId') for track in library_songs if track.get('videoId')}
LibraryVideoIds(songs) ==
    { songs[n].videoId : n \in { m \in 1..Len(songs) : songs[m].videoId # "" } }

BestMatch(library_track, similarity, reason) ==
    [library_track |-> library_track, similarity |-> similarity, reason |-> reason]

\* `for lib_track in lib_tracks: best_matches.append(...)`
RECURSIVE ForLibTracks(_, _, _)
ForLibTracks(tracks, similarity, reason) ==
    IF tracks = <<>> THEN <<>>
    ELSE <<BestMatch(Head(tracks), similarity, reason)>>
         \o ForLibTracks(Tail(tracks), similarity, reason)

\* `for lib_key, lib_tracks in library_normalized.items()` from entry i on:
\* the entries whose key is similar enough to lookup_key
RECURSIVE FuzzyMatches(_, _, _)
FuzzyMatches(d, lookup_key, i) ==
    IF i > Len(d) THEN <<>>
    ELSE LET similarity == similarity_score(lookup_key, d[i].key)
         IN  (IF RatioGeq(similarity, similarity_threshold)
              THEN ForLibTracks(d[i].tracks, similarity, "similarity")
              ELSE <<>>)
             \o FuzzyMatches(d, lookup_key, i + 1)

\* the body of `for playlist_artist in playlist_artists:` over the artists
RECURSIVE BestMatches(_, _, _)
BestMatches(d, playlist_title, playlist_artists) ==
    IF playlist_artists = <<>> THEN <<>>
    ELSE LET lookup_key == LookupKey(playlist_title, normalize_text(Head(playlist_artists)))
             i == KeyIndex(d, lookup_key, 1)
         IN  (IF i > 0
              THEN ForLibTracks(d[i].tracks, Ratio(1, 1), "exact")
              ELSE FuzzyMatches(d, lookup_key, 1))
             \o BestMatches(d, playlist_title, Tail(playlist_artists))

\* x put behind the entries of the sorted list that are at least as similar
RECURSIVE InsertBySimilarity(_, _)
InsertBySimilarity(sortedMatches, x) ==
    IF sortedMatches = <<>> THEN <<x>>
    ELSE IF RatioGeq(Head(sortedMatches).similarity, x.similarity)
    THEN <<Head(sortedMatches)>> \o InsertBySimilarity(Tail(sortedMatches), x)
    ELSE <<x>> \o sortedMatches

\* best_matches.sort(key=lambda x: x['similarity'], reverse=True): stable
RECURSIVE SortBySimilarity(_, _)
SortBySimilarity(best_matches, n) ==
    IF n = 0 THEN <<>>
    ELSE InsertBySimilarity(SortBySimilarity(best_matches, n - 1), best_matches[n])

\* best_matches[:3]
TopMatches(best_matches) ==
    LET s == SortBySimilarity(best_matches, Len(best_matches))
    IN  SubSeq(s, 1, IF Len(s) < 3 THEN Len(s) ELSE 3)

LibMatch(playlist_track, match_type, confidence, library_matches) ==
    [playlist_track |-> playlist_track, match_type |-> match_type,
     confidence |-> confidence, library_matches |-> library_matches]

\* matches after the body of `for playlist_track in playlist_tracks:` for the
\* track at position p, whose video id, title and artist names are given
ProcessTrack(p, video_id, title, playlist_artists) ==
    IF video_id # "" /\ video_id \in library_video_ids
    THEN Append(lib_matches,
                LibMatch(p, "exact_video_id", Ratio(1, 1), <<[videoId |-> video_id]>>))
    ELSE LET playlist_title == normalize_text(title)
         IN  IF playlist_title = "" \/ playlist_artists = <<>>
             THEN lib_matches
             ELSE LET best_matches == BestMatches(library_normalized, playlist_title,
                                                  playlist_artists)
                      top_matches == TopMatches(best_matches)
                  IN  IF best_matches = <<>> THEN lib_matches
                      ELSE Append(lib_matches,
                               LibMatch(p, "similarity",
                                        Ratio(9 * top_matches[1].similarity.num,
                                              10 * top_matches[1].similarity.den),
                                        top_matches))

MaxLibrary == 2
MaxPlaylist == 2

\* a song, the same title by an artist whose name is punctuation only, a title
\* that is a version marker only, a near title
LibrarySongPool ==
    { LibraryTrack("v1", "Song", <<"A">>),
      LibraryTrack("v2", "Song", <<"!!!">>),
      LibraryTrack("v3", "(Live)", <<"A">>),
      LibraryTrack("", "Songs", <<"A", "B">>) }

\* playlist tracks as [videoId, title, artists]: a library video, a version of
\* a library song, tracks whose title or artist normalizes to nothing, a track
\* without artists, a track with an empty artist name
PlaylistItemPool ==
    { LibraryTrack("v1", "Other", <<"B">>),
      LibraryTrack("v9", "Song (Live)", <<"A">>),
      LibraryTrack("", "Song", <<"!!!">>),
      LibraryTrack("", "(Live)", <<"A">>),
      LibraryTrack("", "Song", <<>>),
      LibraryTrack("", "Song", <<"", "A">>) }

\* remove_liked, deduplicate_against_library and auto_remove_high_confidence:
\* the defaults, and each of them off
SimilarityArgsPool ==
    { <<TRUE, TRUE, TRUE>>, <<FALSE, TRUE, TRUE>>, <<TRUE, FALSE, TRUE>>,
      <<FALSE, TRUE, FALSE>> }

LibInit ==
    /\ pc = "lib_index"
    /\ lib_impl \in {"cleaner", "remove_library_duplicates",
                     "clean_playlist_with_similarity"}
    /\ library_songs \in SeqsUpTo(LibrarySongPool, MaxLibrary)
    /\ lib_tracks \in SeqsUpTo(PlaylistItemPool, MaxPlaylist)
    /\ IF lib_impl = "clean_playlist_with_similarity"
       THEN /\ \E a \in SimilarityArgsPool :
                  /\ sim_remove_liked = a[1]
                  /\ sim_deduplicate = a[2]
                  /\ auto_remove_high_confidence = a[3]
            /\ sim_liked = {"v9"}
            \* the second track of the playlist has no set_video_id
            /\ set_video_ids = [p \in 1..Len(lib_tracks) |-> IF p = 2 THEN 0 ELSE p]
       ELSE /\ sim_remove_liked = FALSE
            /\ sim_deduplicate = FALSE
            /\ auto_remove_high_confidence = FALSE
            /\ sim_liked = {}
            /\ set_video_ids = <<>>
    /\ marked = <<>>
    /\ sim_to_remove = <<>>
    /\ sim_i = 0
    /\ sim_requests = <<>>
    /\ removal_errors = <<>>
    /\ similarity_result = <<>>
    /\ library_video_ids = {}
    /\ library_normalized = <<>>
    /\ processed = 0
    /\ lib_matches = <<>>
    /\ lib_result = <<>>
    /\ DedupIdle
    /\ CompareIdle
    /\ NormIdle
    /\ MatcherIdle
    /\ AuditIdle
    /\ CleanIdle
    /\ ThirdIdle

LibFrame == UNCHANGED <<lib_impl, library_songs, lib_tracks, simArgs, simVars, notLibVars>>

\* find_library_duplicates_with_similarity runs, called directly or by
\* clean_playlist_with_similarity
InSimilarity == lib_impl \in {"cleaner", "clean_playlist_with_similarity"}

\* the lookup structures over the library, in either function
BuildLibraryIndex ==
    /\ pc = "lib_index"
    /\ lib_impl = "clean_playlist_with_similarity" => sim_deduplicate
    /\ library_video_ids' = LibraryVideoIds(library_songs)
    /\ library_normalized' = LibraryNormalized(library_songs, Len(library_songs))
    /\ pc' = "lib_loop"
    /\ UNCHANGED <<processed, lib_matches, lib_result>>
    /\ LibFrame

\* one iteration of `for playlist_track in playlist_tracks` of
\* find_library_duplicates_with_similarity: playlist_track.artists as it is
SimilarityProcessTrack ==
    /\ pc = "lib_loop"
    /\ InSimilarity
    /\ processed < Len(lib_tracks)
    /\ processed' = processed + 1
    /\ LET t == lib_tracks[processed + 1]
       IN  lib_matches' = ProcessTrack(processed + 1, t.videoId, t.title, t.artists)
    /\ UNCHANGED <<pc, library_video_ids, library_normalized, lib_result>>
    /\ LibFrame

\* the classification and the returned dict
SimilarityReturn ==
    /\ pc = "lib_loop"
    /\ InSimilarity
    /\ processed = Len(lib_tracks)
    /\ lib_result' =
          [total_matches |-> Len(lib_matches),
           high_confidence |-> SelectSeq(lib_matches,
                                   LAMBDA m : RatioGeq(m.confidence, Ratio(95, 100))),
           needs_review |-> SelectSeq(lib_matches,
                                   LAMBDA m : ~RatioGeq(m.confidence, Ratio(95, 100))),
           all_matches |-> lib_matches]
    /\ pc' = "lib_done"
    /\ UNCHANGED <<library_video_ids, library_normalized, processed, lib_matches>>
    /\ LibFrame

\* one iteration of `for playlist_track in playlist_tracks` of
\* find_library_matches: the artists come through get_artist_names
LibraryMatchesProcessTrack ==
    /\ pc = "lib_loop"
    /\ lib_impl = "remove_library_duplicates"
    /\ processed < Len(lib_tracks)
    /\ processed' = processed + 1
    /\ LET t == lib_tracks[processed + 1]
       IN  lib_matches' = ProcessTrack(processed + 1, t.videoId, t.title,
                                       get_artist_names(t.artists))
    /\ UNCHANGED <<pc, library_video_ids, library_normalized, lib_result>>
    /\ LibFrame

\* `return matches`
LibraryMatchesReturn ==
    /\ pc = "lib_loop"
    /\ lib_impl = "remove_library_duplicates"
    /\ processed = Len(lib_tracks)
    /\ lib_result' = lib_matches
    /\ pc' = "lib_done"
    /\ UNCHANGED <<library_video_ids, library_normalized, processed, lib_matches>>
    /\ LibFrame

\* the track's title, or its artist string (the names joined, as the signature
\* joins them), normalizes to the empty string
EmptyNormalized(track) ==
    \/ normalize_text(track.title) = ""
    \/ normalize_text(join(track.artists)) = ""

\* C13: no playlist track whose normalized title or normalized artist is empty
\* is reported as a similarity match, and no similarity match lists a library
\* track whose normalized title or artist is empty.
C13_EmptyIsUnmatchable ==
    \A i \in 1..Len(lib_matches) :
        lib_matches[i].match_type = "similarity" =>
            /\ ~EmptyNormalized(lib_tracks[lib_matches[i].playlist_track])
            /\ \A k \in 1..Len(lib_matches[i].library_matches) :
                  ~EmptyNormalized(library_songs[lib_matches[i].library_matches[k].library_track])

\* the part of C13 that the code keeps: an empty normalized title, on either
\* side, is never part of a similarity match
EmptyTitleIsUnmatchable ==
    \A i \in 1..Len(lib_matches) :
        lib_matches[i].match_type = "similarity" =>
            /\ normalize_text(lib_tracks[lib_matches[i].playlist_track].title) # ""
            /\ \A k \in 1..Len(lib_matches[i].library_matches) :
                  normalize_text(library_songs[lib_matches[i].library_matches[k].library_track].title) # ""

---------------------------------------------------------------------------
(* The matcher cascade of the comparator (TrackMatcher and                 *)
(* LibraryComparator of musiclib.core), from its specification: identifier *)
(* match, exact normalized match, base-title match accepted at the         *)
(* exact-accept threshold, fuzzy match accepted at the fuzzy-accept        *)
(* threshold, missing.  A source track is described by what the target     *)
(* index holds for it: an identifier hit, an exact hit, the composite      *)
(* scores (in hundredths) of its base-title candidates and of its fuzzy    *)
(* candidates, in target order.                                            *)

MaxCompared == 2

Compared(isrc_hit, exact_hit, base_scores, fuzzy_scores) ==
    [isrc_hit |-> isrc_hit, exact_hit |-> exact_hit,
     base_scores |-> base_scores, fuzzy_scores |-> fuzzy_scores]

ComparedPool ==
    { Compared(TRUE, FALSE, <<>>, <<>>),
      Compared(FALSE, TRUE, <<>>, <<84>>),
      Compared(FALSE, FALSE, <<84>>, <<>>),
      Compared(FALSE, FALSE, <<>>, <<84>>),
      Compared(FALSE, FALSE, <<>>, <<84, 88>>),
      Compared(FALSE, FALSE, <<>>, <<79, 87>>),
      Compared(FALSE, FALSE, <<75>>, <<90>>),
      Compared(FALSE, FALSE, <<>>, <<>>) }

\* exact-accept: 0.80 by default; strict mode raises it, by an amount that is
\* not stated
ExactAccepts(strict) == IF strict THEN {85, 90} ELSE {80}

\* fuzzy-accept in lenient mode whatever the mode is
FuzzyAccept_Lenient(strict) == 82

\* fuzzy-accept: 0.82 in lenient mode, 0.88 in strict mode
FuzzyAccept(strict) == IF strict THEN 88 ELSE 82

\* the highest score of a list of candidates, 0 for no candidate
BestScore(scores) == IF scores = <<>> THEN 0 ELSE Max(Range(scores))

MatcherInit ==
    /\ pc = "match"
    /\ strict_mode \in BOOLEAN
    /\ exact_accept \in ExactAccepts(strict_mode)
    /\ compared \in SeqsUpTo(ComparedPool, MaxCompared)
    /\ compared_idx = 1
    /\ result_matches = <<>>
    /\ missing_tracks = <<>>
    /\ DedupIdle
    /\ CompareIdle
    /\ NormIdle
    /\ LibIdle
    /\ AuditIdle
    /\ CleanIdle
    /\ ThirdIdle

MatcherFrame == UNCHANGED <<pc, strict_mode, exact_accept, compared, notMatcherVars>>

Matching == pc = "match" /\ compared_idx <= Len(compared)

Accept(confidence, match_type) ==
    /\ result_matches' = Append(result_matches,
           [source |-> compared_idx, confidence |-> confidence, match_type |-> match_type])
    /\ compared_idx' = compared_idx + 1
    /\ UNCHANGED missing_tracks
    /\ MatcherFrame

\* stage 1: identifier match, confidence 1.0
StageIdentifier ==
    /\ Matching
    /\ compared[compared_idx].isrc_hit
    /\ Accept(100, "isrc")

\* stage 2: exact normalized match, confidence in [0.95, 1.0]
StageExact ==
    /\ Matching
    /\ ~compared[compared_idx].isrc_hit
    /\ compared[compared_idx].exact_hit
    /\ \E confidence \in 95..100 : Accept(confidence, "exact")

\* the base-title stage accepts its best candidate
BaseAccepted(c) == c.base_scores # <<>> /\ BestScore(c.base_scores) >= exact_accept

\* stage 3: base-title match
StageBaseTitle ==
    /\ Matching
    /\ ~compared[compared_idx].isrc_hit
    /\ ~compared[compared_idx].exact_hit
    /\ BaseAccepted(compared[compared_idx])
    /\ Accept(BestScore(compared[compared_idx].base_scores), "base_title")

\* the source track reaches the fuzzy stage
ReachesFuzzy(c) == ~c.isrc_hit /\ ~c.exact_hit /\ ~BaseAccepted(c)

\* stage 4: fuzzy match
StageFuzzy ==
    /\ Matching
    /\ ReachesFuzzy(compared[compared_idx])
    /\ compared[compared_idx].fuzzy_scores # <<>>
    /\ BestScore(compared[compared_idx].fuzzy_scores) >= FuzzyAccept(strict_mode)
    /\ Accept(BestScore(compared[compared_idx].fuzzy_scores), "fuzzy")

\* stage 5: no stage accepted, the track is missing
StageNone ==
    /\ Matching
    /\ ReachesFuzzy(compared[compared_idx])
    /\ \/ compared[compared_idx].fuzzy_scores = <<>>
       \/ BestScore(compared[compared_idx].fuzzy_scores) < FuzzyAccept(strict_mode)
    /\ missing_tracks' = Append(missing_tracks, compared_idx)
    /\ compared_idx' = compared_idx + 1
    /\ UNCHANGED result_matches
    /\ MatcherFrame

MatcherReturn ==
    /\ pc = "match"
    /\ compared_idx > Len(compared)
    /\ pc' = "matched"
    /\ UNCHANGED <<matcherVars, notMatcherVars>>

MatcherNext ==
    \/ StageIdentifier
    \/ StageExact
    \/ StageBaseTitle
    \/ StageFuzzy
    \/ StageNone
    \/ MatcherReturn

SpecMatcher == MatcherInit /\ [][MatcherNext]_vars

\* C15: in strict mode a source track that reaches the fuzzy stage and whose
\* best fuzzy candidate scores below 0.88 (0.84, say) is in missing_tracks and
\* not in matches.
C15_StrictFuzzyThreshold ==
    (pc = "matched" /\ strict_mode) =>
        \A s \in 1..Len(compared) :
            (/\ ReachesFuzzy(compared[s])
             /\ compared[s].fuzzy_scores # <<>>
             /\ BestScore(compared[s].fuzzy_scores) < 88) =>
                /\ \E i \in 1..Len(missing_tracks) : missing_tracks[i] = s
                /\ \A i \in 1..Len(result_matches) : result_matches[i].source # s

\* a strict comparison with a track whose best fuzzy candidate scores 0.84,
\* reported missing, and a track whose best fuzzy candidate scores 0.88, matched
C15_Witness ==
    /\ pc = "matched"
    /\ strict_mode
    /\ \E s \in 1..Len(compared) :
          /\ ReachesFuzzy(compared[s])
          /\ BestScore(compared[s].fuzzy_scores) = 84
          /\ \E i \in 1..Len(missing_tracks) : missing_tracks[i] = s
    /\ \E i \in 1..Len(result_matches) :
          result_matches[i].match_type = "fuzzy" /\ result_matches[i].confidence = 88

---------------------------------------------------------------------------
(* scripts/audit_playlist_against_library.py: build_indices and match_item *)

\* the words the patterns \bword\b of _strip_version_tokens match; the two
\* patterns `radio\s+edit` and `\d{2,4}\s+remaster` come after `edit` and
\* `remaster` have been replaced and match nothing
StripWords == {"remaster", "remastered", "remix", "version", "live", "acoustic",
               "instrumental", "deluxe", "extended", "edit", "demo", "mono",
               "stereo", "explicit", "clean"}

\* end of the run of word characters of s that starts at i
RECURSIVE WordEnd(_, _)
WordEnd(s, i) ==
    IF i <= Len(s) /\ IsWord(At(s, i)) THEN WordEnd(s, i + 1) ELSE i

\* the pattern substitutions from position i on: a whole word (between two \b)
\* that is one of StripWords, in any case, becomes a space
RECURSIVE SubStripWords(_, _)
SubStripWords(s, i) ==
    IF i > Len(s) THEN ""
    ELSE IF IsWord(At(s, i))
    THEN LET e == WordEnd(s, i)
             w == SubSeq(s, i, e - 1)
         IN  (IF lower(w) \in StripWords THEN " " ELSE w) \o SubStripWords(s, e)
    ELSE At(s, i) \o SubStripWords(s, i + 1)

_strip_version_tokens(title) ==
    IF title = "" THEN ""
    ELSE strip(SubSpaces(SubStripWords(title, 1), 1))

MaxAudit == 2

\* the attributes of a Track that build_indices and match_item read, and the
\* album and duration handed to the matcher
AuditTrack(normalized_title, normalized_artist, artist_tokens, is_music, album, duration) ==
    [normalized_title |-> normalized_title, normalized_artist |-> normalized_artist,
     artist_tokens |-> artist_tokens, is_music |-> is_music,
     album |-> album, duration |-> duration]

\* library tracks: a song and its live version on another album, a remaster
\* credited to two artists, another artist's track, a non-music entry, a track
\* without artist tokens
AuditTrackPool ==
    { AuditTrack("song", "a", {"a"}, TRUE, "x", 180),
      AuditTrack("song live", "a", {"a"}, TRUE, "y", 200),
      AuditTrack("song remastered", "a b", {"a", "b"}, TRUE, "x", 180),
      AuditTrack("other", "c", {"c"}, TRUE, "x", 180),
      AuditTrack("tune", "a", {"a"}, FALSE, "x", 180),
      AuditTrack("tune", "", {}, TRUE, "x", 180) }

\* playlist items: a live version, a title the library does not have, an item
\* without artist tokens
ItemPool ==
    { AuditTrack("song live", "a", {"a"}, TRUE, "x", 180),
      AuditTrack("melody", "a", {"a"}, TRUE, "x", 180),
      AuditTrack("melody", "", {}, TRUE, "x", 180) }

\* the values calculate_match_confidence may return, in hundredths
AuditScores == {0, 75, 81, 90}

\* d.get(key, [])
IdxGet(d, key) == IF key \in DOMAIN d THEN d[key] ELSE <<>>

\* exact after the first n iterations of `for t in tracks` of build_indices
RECURSIVE ExactIdx(_, _)
ExactIdx(tracks, n) ==
    IF n = 0 THEN <<>>
    ELSE DictAppend(ExactIdx(tracks, n - 1),
                    <<tracks[n].normalized_title, tracks[n].normalized_artist>>, n)

\* base after the first n iterations
RECURSIVE BaseIdx(_, _)
BaseIdx(tracks, n) ==
    IF n = 0 THEN <<>>
    ELSE DictAppend(BaseIdx(tracks, n - 1),
                    <<_strip_version_tokens(tracks[n].normalized_title),
                      tracks[n].normalized_artist>>, n)

\* the loop `for c in candidates: ... if score > best_score` from i on; best
\* is a position, 0 for None
RECURSIVE BestOf(_, _, _, _)
BestOf(cands, i, best, best_score) ==
    IF i > Len(cands) THEN [best |-> best, best_score |-> best_score]
    ELSE IF confidence_of[cands[i]] > best_score
    THEN BestOf(cands, i + 1, cands[i], confidence_of[cands[i]])
    ELSE BestOf(cands, i + 1, best, best_score)

ExactCandidates == IdxGet(exact_idx, <<item.normalized_title, item.normalized_artist>>)

BaseCandidates ==
    IdxGet(base_idx, <<_strip_version_tokens(item.normalized_title), item.normalized_artist>>)

\* the music tracks with artist tokens that share one with the source, in
\* library order
SharingTokens ==
    SelectSeq([k \in 1..Len(audit_tracks) |-> k],
              LAMBDA k : /\ audit_tracks[k].is_music
                         /\ audit_tracks[k].artist_tokens # {}
                         /\ item.artist_tokens \cap audit_tracks[k].artist_tokens # {})

\* cands of the fuzzy stage
FuzzyCands ==
    IF item.artist_tokens # {} THEN SharingTokens
    ELSE [k \in 1..Len(audit_tracks) |-> k]

AuditResult(bucket, best_track, confidence) ==
    [bucket |-> bucket, best_track |-> best_track, confidence |-> confidence]

AuditInit ==
    /\ pc = "audit_index"
    /\ item \in ItemPool
    /\ audit_tracks \in SeqsUpTo(AuditTrackPool, MaxAudit)
    /\ confidence_of \in [1..Len(audit_tracks) -> AuditScores]
    /\ exact_idx = <<>>
    /\ base_idx = <<>>
    /\ audit_result = <<>>
    /\ DedupIdle
    /\ CompareIdle
    /\ NormIdle
    /\ LibIdle
    /\ MatcherIdle
    /\ CleanIdle
    /\ ThirdIdle

AuditFrame == UNCHANGED <<item, audit_tracks, confidence_of, notAuditVars>>

\* exact_idx, base_idx = build_indices(lib_tracks)
BuildAuditIndices ==
    /\ pc = "audit_index"
    /\ exact_idx' = ExactIdx(audit_tracks, Len(audit_tracks))
    /\ base_idx' = BaseIdx(audit_tracks, Len(audit_tracks))
    /\ pc' = "match_item"
    /\ UNCHANGED audit_result
    /\ AuditFrame

\* match_item returns at 1) Exact normalized
MatchItemExact ==
    /\ pc = "match_item"
    /\ ExactCandidates # <<>>
    /\ audit_result' = AuditResult("present", ExactCandidates[1], 98)
    /\ pc' = "returned_exact"
    /\ UNCHANGED <<exact_idx, base_idx>>
    /\ AuditFrame

\* the best base-title candidate
BaseBest == BestOf(BaseCandidates, 1, 0, 0)

\* match_item returns at 2) Base-title exact: present from 0.80, review from 0.70
MatchItemBase ==
    /\ pc = "match_item"
    /\ ExactCandidates = <<>>
    /\ BaseCandidates # <<>>
    /\ BaseBest.best # 0
    /\ BaseBest.best_score >= 70
    /\ audit_result' = AuditResult(IF BaseBest.best_score >= 80 THEN "present" ELSE "review",
                                   BaseBest.best, BaseBest.best_score)
    /\ pc' = "returned_base"
    /\ UNCHANGED <<exact_idx, base_idx>>
    /\ AuditFrame

\* the best fuzzy candidate
FuzzyBest == BestOf(FuzzyCands, 1, 0, 0)

\* match_item returns at 3) Fuzzy: present from 0.82, review from 0.70, else
\* missing with no track
MatchItemFuzzy ==
    /\ pc = "match_item"
    /\ ExactCandidates = <<>>
    /\ \/ BaseCandidates = <<>>
       \/ BaseBest.best = 0
       \/ BaseBest.best_score < 70
    /\ audit_result' =
          IF FuzzyBest.best # 0 /\ FuzzyBest.best_score >= 82
          THEN AuditResult("present", FuzzyBest.best, FuzzyBest.best_score)
          ELSE IF FuzzyBest.best # 0 /\ FuzzyBest.best_score >= 70
          THEN AuditResult("review", FuzzyBest.best, FuzzyBest.best_score)
          ELSE AuditResult("missing", 0, FuzzyBest.best_score)
    /\ pc' = "returned_fuzzy"
    /\ UNCHANGED <<exact_idx, base_idx>>
    /\ AuditFrame

AuditNext ==
    \/ BuildAuditIndices
    \/ MatchItemExact
    \/ MatchItemBase
    \/ MatchItemFuzzy

SpecAudit == AuditInit /\ [][AuditNext]_vars

---------------------------------------------------------------------------
(* Properties of the fuzzy stage (SpecCompare, SpecAudit).                 *)

\* the artist tokens of a track of the comparison: the artist names of
\* LibraryPool hold no separator, so a track has its artist as only token
ArtistTokensOf(track) ==
    IF track.normalized_artist = "" THEN {} ELSE {track.normalized_artist}

\* C16: a source track that has artist tokens is never fuzzy-matched to a
\* target with which it shares no artist token: the fuzzy stage goes through
\* the whole target only for a source track without artist tokens.
C16_FuzzySharesArtistToken ==
    \A i \in 1..Len(matches) :
        (/\ matches[i].match_type = "fuzzy"
         /\ ArtistTokensOf(source_tracks[matches[i].source]) # {}) =>
            ArtistTokensOf(source_tracks[matches[i].source])
                \cap ArtistTokensOf(target_tracks[matches[i].target]) # {}

\* the same for match_item: a track returned by its fuzzy stage for an item
\* with artist tokens shares a token with the item
FuzzySharesArtistTokenInMatchItem ==
    (/\ pc = "returned_fuzzy"
     /\ audit_result.best_track # 0
     /\ item.artist_tokens # {}) =>
        item.artist_tokens \cap audit_tracks[audit_result.best_track].artist_tokens # {}

Returned == pc \in {"returned_exact", "returned_base", "returned_fuzzy"}

\* C17: a base-title candidate that scores below 0.80 is not accepted as a
\* match and the fuzzy stage is still tried: the item is bucketed present
\* whenever some music track of the library that shares an artist token with
\* it has a match confidence of at least 0.82.
C17_FuzzyTriedAfterBaseTitle ==
    Returned =>
        /\ (pc = "returned_base" /\ audit_result.confidence < 80) =>
              audit_result.bucket # "present"
        /\ (\E k \in Range(SharingTokens) : confidence_of[k] >= 82) =>
              audit_result.bucket = "present"

\* what the code keeps of C17: when no base-title candidate reaches 0.70 the
\* fuzzy stage is tried and decides the bucket
FuzzyTriedBelowReview ==
    (/\ Returned
     /\ ExactCandidates = <<>>
     /\ \A k \in Range(BaseCandidates) : confidence_of[k] < 70
     /\ \E k \in Range(SharingTokens) : confidence_of[k] >= 82) =>
        pc = "returned_fuzzy" /\ audit_result.bucket = "present"

\* the candidates of the stage that returned
StageCands == IF pc = "returned_base" THEN BaseCandidates ELSE FuzzyCands

\* the positions in cands of the candidates with the highest score
TopScored(cands) ==
    { i \in 1..Len(cands) :
        \A j \in 1..Len(cands) : confidence_of[cands[j]] <= confidence_of[cands[i]] }

AlbumMatch(k) == audit_tracks[k].album = item.album

DurationGap(k) ==
    IF audit_tracks[k].duration >= item.duration
    THEN audit_tracks[k].duration - item.duration
    ELSE item.duration - audit_tracks[k].duration

\* candidate i of cands is preferred to candidate j: album match, then closer
\* duration, then first encountered
Preferred(cands, i, j) ==
    \/ AlbumMatch(cands[i]) /\ ~AlbumMatch(cands[j])
    \/ /\ AlbumMatch(cands[i]) = AlbumMatch(cands[j])
       /\ \/ DurationGap(cands[i]) < DurationGap(cands[j])
          \/ DurationGap(cands[i]) = DurationGap(cands[j]) /\ i < j

\* C18: among the base-title or fuzzy candidates with the highest score, the
\* track returned is the one with an album match, then the one with the closer
\* duration, then the first in library order.
C18_TieBreak ==
    (pc \in {"returned_base", "returned_fuzzy"} /\ audit_result.best_track # 0) =>
        \E i \in TopScored(StageCands) :
            /\ StageCands[i] = audit_result.best_track
            /\ \A j \in TopScored(StageCands) \ {i} : Preferred(StageCands, i, j)

\* what the code does: the first of the highest-scoring candidates is returned
FirstOfTiesReturned ==
    (pc \in {"returned_base", "returned_fuzzy"} /\ audit_result.best_track # 0) =>
        \E i \in TopScored(StageCands) :
            /\ StageCands[i] = audit_result.best_track
            /\ \A j \in TopScored(StageCands) : i <= j

---------------------------------------------------------------------------
(* The removal of tracks from a playlist: PlaylistCleaner.clean_playlist,  *)
(* PlaylistCleaner.deduplicate_playlist_internal and clean_playlist of     *)
(* simple_playlist_cleaner.py.  A video id is a number, 0 for an absent id *)
(* (None or ''); a track's setVideoId is its position, or 0.               *)

\* batch_size = 50
batch_size == 50

\* length of the longest playlist
MaxCleanTracks == 106

CleanTrack(video_id, set_video_id, title, duration) ==
    [video_id |-> video_id, set_video_id |-> set_video_id,
     title |-> title, artists |-> <<"A">>, duration |-> duration]

Letter(d) == SubSeq("abcdefghij", d + 1, d + 1)

\* a title of three letters for the number k
TitleOf(k) == Letter((k \div 100) % 10) \o Letter((k \div 10) % 10) \o Letter(k % 10)

\* a playlist of n tracks, every fourteenth from the seventh on without
\* setVideoId; when paired, tracks 2j - 1 and 2j have the same title; the
\* sixtieth track is longer than the others, so that paired with the one
\* before it makes a group whose durations differ by more than a fifth
PlaylistOf(n, paired) ==
    [k \in 1..n |->
        CleanTrack(k, IF k % 14 = 7 THEN 0 ELSE k,
                   TitleOf(IF paired THEN (k + 1) \div 2 ELSE k),
                   IF k % 60 = 0 THEN "5:00" ELSE "3:00")]

\* two copies of one song whose durations differ by more than a fifth
ReviewPair == <<CleanTrack(1, 1, "aaa", "3:00"), CleanTrack(2, 2, "aaa", "5:00")>>

CleanLengths == {0, 2, batch_size, batch_size + 1, MaxCleanTracks}

\* tracks_to_remove[i:i + batch_size] without the upper end
BatchAt_Unbounded(list, i) == SubSeq(list, i + 1, Len(list))

\* tracks_to_remove[i:i + batch_size]
BatchAt(list, i) ==
    SubSeq(list, i + 1, IF i + batch_size < Len(list) THEN i + batch_size ELSE Len(list))

RemoveItem(track) == [videoId |-> track.video_id, setVideoId |-> track.set_video_id]

\* `remove_liked and track.video_id in liked_songs` of clean_playlist
IsLiked(track) == remove_liked /\ track.video_id \in liked_songs

\* the elif branch: `deduplicate_against_library and track.video_id in ...`
IsLibraryDuplicate(track) ==
    ~IsLiked(track) /\ remove_library /\ track.video_id \in library_ids

\* tracks_to_remove after the loop `for i, track in enumerate(tracks)` of
\* clean_playlist over the tracks lo..hi: the list over a range is the
\* concatenation of the lists over its halves
RECURSIVE CleanAnalysis(_, _)
CleanAnalysis(lo, hi) ==
    IF lo > hi THEN <<>>
    ELSE IF lo = hi
    THEN (IF (IsLiked(fetched[lo]) \/ IsLibraryDuplicate(fetched[lo]))
             /\ fetched[lo].set_video_id # 0
          THEN <<RemoveItem(fetched[lo])>> ELSE <<>>)
    ELSE CleanAnalysis(lo, (lo + hi) \div 2) \o CleanAnalysis((lo + hi) \div 2 + 1, hi)

\* `if not video_id or not set_video_id: continue` of simple_playlist_cleaner
IsProcessed(track) == track.video_id # 0 /\ track.set_video_id # 0

\* tracks_to_remove after the loop `for i, track in enumerate(all_tracks)` of
\* simple_playlist_cleaner over the tracks lo..hi
RECURSIVE SimpleAnalysis(_, _)
SimpleAnalysis(lo, hi) ==
    IF lo > hi THEN <<>>
    ELSE IF lo = hi
    THEN (IF IsProcessed(fetched[lo])
             /\ (IsLiked(fetched[lo]) \/ IsLibraryDuplicate(fetched[lo]))
          THEN <<RemoveItem(fetched[lo])>> ELSE <<>>)
    ELSE SimpleAnalysis(lo, (lo + hi) \div 2) \o SimpleAnalysis((lo + hi) \div 2 + 1, hi)

\* the members of S between lo and hi, ascending
RECURSIVE Ascending(_, _, _)
Ascending(S, lo, hi) ==
    IF lo > hi THEN <<>>
    ELSE IF lo = hi THEN (IF lo \in S THEN <<lo>> ELSE <<>>)
    ELSE Ascending(S, lo, (lo + hi) \div 2) \o Ascending(S, (lo + hi) \div 2 + 1, hi)

\* `for track in duplicate_group.tracks_to_remove: if track.set_video_id: ...`
RECURSIVE GroupRemovals(_, _)
GroupRemovals(pl, removals) ==
    IF removals = <<>> THEN <<>>
    ELSE (IF pl[Head(removals)].set_video_id # 0
          THEN <<RemoveItem(pl[Head(removals)])>> ELSE <<>>)
         \o GroupRemovals(pl, Tail(removals))

\* the removals of every group lo..hi of dups, those that need review too
RECURSIVE AutoRemovals_ReviewToo(_, _, _, _)
AutoRemovals_ReviewToo(pl, dups, lo, hi) ==
    IF lo > hi THEN <<>>
    ELSE IF lo = hi
    THEN GroupRemovals(pl, dups[lo].tracks_to_remove)
    ELSE AutoRemovals_ReviewToo(pl, dups, lo, (lo + hi) \div 2)
         \o AutoRemovals_ReviewToo(pl, dups, (lo + hi) \div 2 + 1, hi)

\* `for duplicate_group in auto_remove_candidates:` over the groups lo..hi of
\* dups, those that need no review
RECURSIVE AutoRemovals(_, _, _, _)
AutoRemovals(pl, dups, lo, hi) ==
    IF lo > hi THEN <<>>
    ELSE IF lo = hi
    THEN (IF ~dups[lo].review_needed
          THEN GroupRemovals(pl, dups[lo].tracks_to_remove) ELSE <<>>)
    ELSE AutoRemovals(pl, dups, lo, (lo + hi) \div 2)
         \o AutoRemovals(pl, dups, (lo + hi) \div 2 + 1, hi)

CleanInit ==
    /\ \/ /\ clean_impl \in {"clean_playlist", "simple_playlist_cleaner"}
          /\ pc = "clean"
          /\ \E n \in CleanLengths :
                /\ fetched = PlaylistOf(n, FALSE)
                /\ liked_songs \in {{}, 1..n, {k \in 1..n : k % 2 = 1}}
                /\ library_ids \in {{}, 1..n, {k \in 1..n : k % 3 = 0}}
          /\ remove_liked \in BOOLEAN
          /\ remove_library \in BOOLEAN
          /\ auto_remove = FALSE
          /\ dry_run \in (IF clean_impl = "clean_playlist" THEN {FALSE} ELSE BOOLEAN)
          /\ DedupIdle
       \/ /\ clean_impl \in {"deduplicate_playlist_internal", "deduplicate_playlist"}
          /\ \/ \E n \in CleanLengths :
                   fetched \in {PlaylistOf(n, TRUE), PlaylistOf(n, FALSE)}
             \/ fetched = ReviewPair
          /\ liked_songs = {}
          /\ library_ids = {}
          /\ remove_liked = FALSE
          /\ remove_library = FALSE
          /\ auto_remove \in BOOLEAN
          /\ dry_run = FALSE
          \* find_playlist_internal_duplicates, or find_playlist_duplicates, is entered
          /\ pc = "run"
          /\ impl = (IF clean_impl = "deduplicate_playlist" THEN "deduper" ELSE "cleaner")
          /\ playlist_tracks = fetched
          /\ idx = 1
          /\ signature_groups = <<>>
          /\ gi = 1
          /\ duplicates = <<>>
    /\ to_remove = <<>>
    /\ removed_liked = 0
    /\ removed_duplicates = 0
    /\ batch_i = 0
    /\ requests = <<>>
    /\ errors = <<>>
    /\ clean_result = <<>>
    /\ CompareIdle
    /\ NormIdle
    /\ LibIdle
    /\ MatcherIdle
    /\ AuditIdle
    /\ ThirdIdle

CleanFrame ==
    UNCHANGED <<clean_impl, fetched, liked_songs, library_ids, remove_liked,
                remove_library, auto_remove, dry_run, notCleanVars>>

\* one iteration of the batch loop: the call remove_playlist_items(playlist_id,
\* batch) succeeds or raises; collect tells whether the handler appends to errors
RemoveBatch(failed, collect) ==
    /\ pc = "batches"
    /\ batch_i < Len(to_remove)
    /\ requests' = Append(requests, [batch |-> BatchAt(to_remove, batch_i), failed |-> failed])
    /\ errors' = IF failed /\ collect
                 THEN Append(errors, batch_i \div batch_size + 1) ELSE errors
    /\ batch_i' = batch_i + batch_size
    /\ UNCHANGED <<pc, to_remove, removed_liked, removed_duplicates, clean_result>>
    /\ CleanFrame

\* clean_playlist up to the batch loop: the tracks to remove and the counters
CleanPlaylistAnalyze ==
    /\ pc = "clean"
    /\ clean_impl = "clean_playlist"
    /\ to_remove' = CleanAnalysis(1, Len(fetched))
    /\ removed_liked' = Cardinality({k \in 1..Len(fetched) : IsLiked(fetched[k])})
    /\ removed_duplicates' =
           Cardinality({k \in 1..Len(fetched) : IsLibraryDuplicate(fetched[k])})
    /\ pc' = "batches"
    /\ UNCHANGED <<batch_i, requests, errors, clean_result>>
    /\ CleanFrame

\* a batch of clean_playlist whose failure ends the loop
CleanPlaylistRemoveBatch_StopAtFailure ==
    /\ clean_impl = "clean_playlist"
    /\ pc = "batches"
    /\ batch_i < Len(to_remove)
    /\ \E failed \in BOOLEAN :
          /\ requests' = Append(requests,
                 [batch |-> BatchAt(to_remove, batch_i), failed |-> failed])
          /\ errors' = IF failed THEN Append(errors, batch_i \div batch_size + 1) ELSE errors
          /\ batch_i' = IF failed THEN Len(to_remove) ELSE batch_i + batch_size
    /\ UNCHANGED <<pc, to_remove, removed_liked, removed_duplicates, clean_result>>
    /\ CleanFrame

\* one batch of clean_playlist: a failure is appended to errors
CleanPlaylistRemoveBatch ==
    /\ clean_impl = "clean_playlist"
    /\ \E failed \in BOOLEAN : RemoveBatch(failed, TRUE)

\* the CleanupResult of clean_playlist
CleanPlaylistReturn ==
    /\ pc = "batches"
    /\ clean_impl = "clean_playlist"
    /\ batch_i >= Len(to_remove)
    /\ clean_result' = [original_count |-> Len(fetched),
                        removed_liked |-> removed_liked,
                        removed_duplicates |-> removed_duplicates,
                        final_count |-> Len(fetched) - Len(to_remove),
                        errors |-> errors]
    /\ pc' = "cleaned"
    /\ UNCHANGED <<to_remove, removed_liked, removed_duplicates, batch_i, requests, errors>>
    /\ CleanFrame

\* deduplicate_playlist_internal from the return of
\* find_playlist_internal_duplicates up to the batch loop; with no duplicate
\* group it returns at once, with errors []
DedupInternalAnalyze ==
    /\ pc = "done"
    /\ clean_impl = "deduplicate_playlist_internal"
    /\ IF duplicates = <<>>
       THEN /\ clean_result' = [original_count |-> Len(fetched),
                                duplicate_groups |-> 0,
                                auto_removed |-> 0,
                                final_count |-> Len(fetched),
                                errors |-> <<>>]
            /\ pc' = "cleaned"
            /\ UNCHANGED to_remove
       ELSE /\ clean_result' = [duplicate_groups |-> Len(duplicates)]
            /\ to_remove' = IF auto_remove
                            THEN AutoRemovals(fetched, duplicates, 1, Len(duplicates))
                            ELSE <<>>
            /\ pc' = "batches"
    /\ UNCHANGED <<removed_liked, removed_duplicates, batch_i, requests, errors>>
    /\ CleanFrame

\* one batch of deduplicate_playlist_internal: a failure is appended to errors
DedupInternalRemoveBatch ==
    /\ clean_impl = "deduplicate_playlist_internal"
    /\ \E failed \in BOOLEAN : RemoveBatch(failed, TRUE)

\* the result dict of deduplicate_playlist_internal
DedupInternalReturn ==
    /\ pc = "batches"
    /\ clean_impl = "deduplicate_playlist_internal"
    /\ batch_i >= Len(to_remove)
    /\ clean_result' = [original_count |-> Len(fetched),
                        duplicate_groups |-> clean_result.duplicate_groups,
                        auto_removed |-> Len(to_remove),
                        final_count |-> Len(fetched) - Len(to_remove),
                        errors |-> errors]
    /\ pc' = "cleaned"
    /\ UNCHANGED <<to_remove, removed_liked, removed_duplicates, batch_i, requests, errors>>
    /\ CleanFrame

\* `for track in duplicate_group.tracks_to_remove:` of deduplicate_playlist:
\* a track needs videoId and setVideoId
RECURSIVE DeduperGroupRemovals(_, _)
DeduperGroupRemovals(pl, removals) ==
    IF removals = <<>> THEN <<>>
    ELSE (IF pl[Head(removals)].video_id # 0 /\ pl[Head(removals)].set_video_id # 0
          THEN <<RemoveItem(pl[Head(removals)])>> ELSE <<>>)
         \o DeduperGroupRemovals(pl, Tail(removals))

\* `for duplicate_group in auto_candidates:` of deduplicate_playlist over the
\* groups lo..hi of dups
RECURSIVE DeduperAutoRemovals(_, _, _, _)
DeduperAutoRemovals(pl, dups, lo, hi) ==
    IF lo > hi THEN <<>>
    ELSE IF lo = hi
    THEN (IF ~dups[lo].review_needed
          THEN DeduperGroupRemovals(pl, dups[lo].tracks_to_remove) ELSE <<>>)
    ELSE DeduperAutoRemovals(pl, dups, lo, (lo + hi) \div 2)
         \o DeduperAutoRemovals(pl, dups, (lo + hi) \div 2 + 1, hi)

\* deduplicate_playlist of playlist_deduper.py from the return of
\* find_playlist_duplicates up to the batch loop; it returns None at once when
\* there is no duplicate group
DeduperAnalyze ==
    /\ pc = "done"
    /\ clean_impl = "deduplicate_playlist"
    /\ IF duplicates = <<>>
       THEN pc' = "cleaned" /\ UNCHANGED to_remove
       ELSE /\ to_remove' = IF auto_remove
                            THEN DeduperAutoRemovals(fetched, duplicates, 1, Len(duplicates))
                            ELSE <<>>
            /\ pc' = "batches"
    /\ UNCHANGED <<removed_liked, removed_duplicates, batch_i, requests, errors, clean_result>>
    /\ CleanFrame

\* one batch of deduplicate_playlist: a failure is only logged
DeduperRemoveBatch ==
    /\ clean_impl = "deduplicate_playlist"
    /\ \E failed \in BOOLEAN : RemoveBatch(failed, FALSE)

\* deduplicate_playlist returns None after the loop
DeduperFinish ==
    /\ pc = "batches"
    /\ clean_impl = "deduplicate_playlist"
    /\ batch_i >= Len(to_remove)
    /\ pc' = "cleaned"
    /\ UNCHANGED <<to_remove, removed_liked, removed_duplicates, batch_i, requests,
                   errors, clean_result>>
    /\ CleanFrame

\* clean_playlist of simple_playlist_cleaner.py up to the batch loop; it
\* returns before any removal for an empty playlist and for a dry run
SimpleCleanAnalyze ==
    /\ pc = "clean"
    /\ clean_impl = "simple_playlist_cleaner"
    /\ IF fetched = <<>>
       THEN /\ pc' = "cleaned"
            /\ UNCHANGED <<to_remove, removed_liked, removed_duplicates>>
       ELSE /\ to_remove' = SimpleAnalysis(1, Len(fetched))
            /\ removed_liked' =
                   Cardinality({k \in 1..Len(fetched) :
                                   IsProcessed(fetched[k]) /\ IsLiked(fetched[k])})
            /\ removed_duplicates' =
                   Cardinality({k \in 1..Len(fetched) :
                                   IsProcessed(fetched[k]) /\ IsLibraryDuplicate(fetched[k])})
            /\ pc' = IF dry_run THEN "cleaned" ELSE "batches"
    /\ UNCHANGED <<batch_i, requests, errors, clean_result>>
    /\ CleanFrame

\* one batch of simple_playlist_cleaner.py: a failure is only logged
SimpleCleanRemoveBatch ==
    /\ clean_impl = "simple_playlist_cleaner"
    /\ \E failed \in BOOLEAN : RemoveBatch(failed, FALSE)

\* simple_playlist_cleaner.py's clean_playlist returns None after the loop
SimpleCleanReturn ==
    /\ pc = "batches"
    /\ clean_impl = "simple_playlist_cleaner"
    /\ batch_i >= Len(to_remove)
    /\ pc' = "cleaned"
    /\ UNCHANGED <<to_remove, removed_liked, removed_duplicates, batch_i, requests,
                   errors, clean_result>>
    /\ CleanFrame

CleanNext ==
    \/ InternalGroupTrack
    \/ InternalScanGroup
    \/ InternalReturn
    \/ DeduperGroupTrack
    \/ DeduperScanGroup
    \/ DeduperReturn
    \/ DeduperAnalyze
    \/ DeduperRemoveBatch
    \/ DeduperFinish
    \/ CleanPlaylistAnalyze
    \/ CleanPlaylistRemoveBatch
    \/ CleanPlaylistReturn
    \/ DedupInternalAnalyze
    \/ DedupInternalRemoveBatch
    \/ DedupInternalReturn
    \/ SimpleCleanAnalyze
    \/ SimpleCleanRemoveBatch
    \/ SimpleCleanReturn

SpecClean == CleanInit /\ [][CleanNext]_vars

---------------------------------------------------------------------------
(* Properties of the removal batches.                                      *)

\* the batches of the first n requests, one after the other
RECURSIVE SentIn(_)
SentIn(n) == IF n = 0 THEN <<>> ELSE SentIn(n - 1) \o requests[n].batch

\* number of batches of `range(0, len(tracks_to_remove), batch_size)`
BatchCount == (Len(to_remove) + batch_size - 1) \div batch_size

\* the run went through the batch loop to its end
LoopFinished == pc = "cleaned" /\ ~dry_run

\* C19: every remove_playlist_items request carries at most 50 items (and at
\* least one), the batches sent so far are, in order, a prefix of the list of
\* tracks to remove, and when the loop has finished they are exactly that
\* list: each track to remove was sent in exactly one request.
C19_BoundedBatches ==
    /\ \A r \in 1..Len(requests) :
          /\ Len(requests[r].batch) <= batch_size
          /\ Len(requests[r].batch) >= 1
    /\ Len(SentIn(Len(requests))) <= Len(to_remove)
    /\ SentIn(Len(requests)) = SubSeq(to_remove, 1, Len(SentIn(Len(requests))))
    /\ LoopFinished => SentIn(Len(requests)) = to_remove

\* clean_playlist has sent a full batch and then a shorter last one
C19_Witness ==
    /\ pc = "cleaned"
    /\ clean_impl = "clean_playlist"
    /\ Len(requests) >= 2
    /\ Len(requests[1].batch) = batch_size
    /\ Len(requests[Len(requests)].batch) < batch_size
    /\ SentIn(Len(requests)) = to_remove

\* deduplicate_playlist_internal has sent more than one batch
BatchesInDedupInternal ==
    /\ pc = "cleaned"
    /\ clean_impl = "deduplicate_playlist_internal"
    /\ Len(requests) >= 2
    /\ SentIn(Len(requests)) = to_remove

\* the numbers of the requests that failed, ascending
FailedBatches == Ascending({r \in 1..Len(requests) : requests[r].failed}, 1, Len(requests))

\* C20: in clean_playlist a failed removal batch is collected, not raised:
\* errors holds one entry per failed request, in order; when clean_playlist
\* has returned, every batch was attempted whatever failed before it, and
\* the CleanupResult carries the collected errors.
C20_FailureCollected ==
    clean_impl = "clean_playlist" =>
        /\ errors = FailedBatches
        /\ pc = "cleaned" =>
              /\ Len(requests) = BatchCount
              /\ clean_result.errors = errors
              /\ clean_result.final_count = Len(fetched) - Len(to_remove)

\* the first batch failed, a later one was still sent, and the result was
\* returned with the error in it
C20_Witness ==
    /\ pc = "cleaned"
    /\ clean_impl = "clean_playlist"
    /\ Len(requests) >= 2
    /\ requests[1].failed
    /\ ~requests[2].failed
    /\ clean_result.errors = <<1>>

\* the items of all the requests issued so far
Sent == UNION { Range(requests[r].batch) : r \in 1..Len(requests) }

\* the item of a track of group g is among the items sent
SentFrom(g, part) == \E t \in Range(part) : RemoveItem(playlist_tracks[t]) \in Sent

\* C23: deduplicate_playlist_internal and deduplicate_playlist send for
\* removal only tracks that are in tracks_to_remove of a group that needs no
\* review, and only when auto_remove is true: no kept track is sent, no track
\* of a group that needs review is sent, and without auto_remove there is no
\* request at all.
C23_OnlyAutoRemovalsSent ==
    clean_impl \in {"deduplicate_playlist_internal", "deduplicate_playlist"} =>
        /\ ~auto_remove => requests = <<>>
        /\ \A sent \in Sent :
              \E g \in 1..Len(duplicates) :
                  /\ ~duplicates[g].review_needed
                  /\ \E t \in Range(duplicates[g].tracks_to_remove) :
                        sent = RemoveItem(playlist_tracks[t])
        /\ \A g \in 1..Len(duplicates) :
              /\ ~SentFrom(g, duplicates[g].tracks_to_keep)
              /\ duplicates[g].review_needed => ~SentFrom(g, duplicates[g].tracks)

\* deduplicate_playlist_internal with auto_remove has sent its batches for a
\* playlist with a group that needs review and groups that do not
C23_Witness ==
    /\ pc = "cleaned"
    /\ clean_impl = "deduplicate_playlist_internal"
    /\ auto_remove
    /\ Len(requests) >= 2
    /\ \E g \in 1..Len(duplicates) : duplicates[g].review_needed
    /\ \E g \in 1..Len(duplicates) :
          ~duplicates[g].review_needed /\ SentFrom(g, duplicates[g].tracks_to_remove)

\* the same in deduplicate_playlist of playlist_deduper.py
AutoRemovalsSentByDeduper ==
    /\ pc = "cleaned"
    /\ clean_impl = "deduplicate_playlist"
    /\ auto_remove
    /\ Len(requests) >= 2
    /\ \E g \in 1..Len(duplicates) : duplicates[g].review_needed

\* the items of the requests r..n that succeeded, counted
RECURSIVE RemovedIn(_, _)
RemovedIn(r, n) ==
    IF r > n THEN 0
    ELSE IF r = n THEN (IF requests[r].failed THEN 0 ELSE Len(requests[r].batch))
    ELSE RemovedIn(r, (r + n) \div 2) + RemovedIn((r + n) \div 2 + 1, n)

\* the tracks left in the playlist: those fetched minus those removed
TracksLeft == Len(fetched) - RemovedIn(1, Len(requests))

\* clean_playlist has returned its CleanupResult
CleanPlaylistReturned == pc = "cleaned" /\ clean_impl = "clean_playlist"

\* C27: the CleanupResult of clean_playlist is consistent with the playlist:
\* final_count is the number of tracks left in the playlist after the call,
\* and removed_liked + removed_duplicates is original_count - final_count,
\* whether or not a marked track lacks a set_video_id or a batch failed.
C27_ResultConsistent ==
    CleanPlaylistReturned =>
        /\ clean_result.original_count = Len(fetched)
        /\ clean_result.final_count = TracksLeft
        /\ clean_result.removed_liked + clean_result.removed_duplicates
               = clean_result.original_count - clean_result.final_count

\* every marked track has a set_video_id and every request succeeded
AllMarkedRemoved ==
    /\ \A r \in 1..Len(requests) : ~requests[r].failed
    /\ \A k \in 1..Len(fetched) :
          (IsLiked(fetched[k]) \/ IsLibraryDuplicate(fetched[k]))
              => fetched[k].set_video_id # 0

\* the CleanupResult is consistent when every marked track could be sent and
\* every request succeeded
ResultConsistentWhenAllRemoved ==
    (CleanPlaylistReturned /\ AllMarkedRemoved) =>
        /\ clean_result.final_count = TracksLeft
        /\ clean_result.removed_liked + clean_result.removed_duplicates
               = clean_result.original_count - clean_result.final_count

\* clean_playlist returned after removing tracks, all requests succeeding
AllRemovedReturned ==
    /\ CleanPlaylistReturned
    /\ AllMarkedRemoved
    /\ Len(requests) >= 1

\* a batch failed, and final_count is less than the tracks left
FinalCountAfterFailedBatch ==
    /\ CleanPlaylistReturned
    /\ \E r \in 1..Len(requests) : requests[r].failed
    /\ clean_result.final_count < TracksLeft

\* a marked track had no set_video_id, no batch failed, and the counters add
\* up to more than the tracks removed
CountersWithoutSetVideoId ==
    /\ CleanPlaylistReturned
    /\ \A r \in 1..Len(requests) : ~requests[r].failed
    /\ clean_result.final_count = TracksLeft
    /\ clean_result.removed_liked + clean_result.removed_duplicates
           > clean_result.original_count - clean_result.final_count

---------------------------------------------------------------------------
(* clean_playlist_with_similarity of PlaylistCleaner: the playlist's       *)
(* tracks are marked with the liked songs and the high-confidence matches  *)
(* of find_library_duplicates_with_similarity, and the marked tracks that  *)
(* have a set_video_id are removed in batches.                             *)

\* {m['playlist_track'].video_id for m in similarity_matches['high_confidence']}
high_confidence_video_ids ==
    IF sim_deduplicate
    THEN { lib_tracks[lib_result.high_confidence[i].playlist_track].videoId :
               i \in 1..Len(lib_result.high_confidence) }
    ELSE {}

\* a track is marked as a library duplicate whatever the confidence of its match
MarkOf_AnyMatch(track) ==
    IF sim_remove_liked /\ track.videoId \in sim_liked THEN "liked"
    ELSE IF sim_deduplicate /\ auto_remove_high_confidence
            /\ \E i \in 1..Len(lib_matches) :
                   lib_tracks[lib_matches[i].playlist_track].videoId = track.videoId
    THEN "duplicate"
    ELSE "none"

\* the if / elif of the loop `for track in tracks:`
MarkOf(track) ==
    IF sim_remove_liked /\ track.videoId \in sim_liked THEN "liked"
    ELSE IF sim_deduplicate /\ auto_remove_high_confidence
            /\ track.videoId \in high_confidence_video_ids
    THEN "duplicate"
    ELSE "none"

\* tracks_to_remove after the first n iterations of `for track in tracks:`
RECURSIVE SimilarityRemovals(_)
SimilarityRemovals(n) ==
    IF n = 0 THEN <<>>
    ELSE SimilarityRemovals(n - 1)
         \o (IF MarkOf(lib_tracks[n]) # "none" /\ set_video_ids[n] # 0
             THEN <<[videoId |-> lib_tracks[n].videoId, setVideoId |-> set_video_ids[n]]>>
             ELSE <<>>)

SimilarityFrame ==
    UNCHANGED <<lib_impl, library_songs, lib_tracks, library_video_ids,
                library_normalized, processed, lib_matches, lib_result, simArgs,
                notLibVars>>

\* clean_playlist_with_similarity from the matches (none when
\* deduplicate_against_library is false) to the batch loop
SimilarityMark ==
    /\ lib_impl = "clean_playlist_with_similarity"
    /\ \/ pc = "lib_done" /\ sim_deduplicate
       \/ pc = "lib_index" /\ ~sim_deduplicate
    /\ marked' = [p \in 1..Len(lib_tracks) |-> MarkOf(lib_tracks[p])]
    /\ sim_to_remove' = SimilarityRemovals(Len(lib_tracks))
    /\ sim_i' = 0
    /\ pc' = "sim_batches"
    /\ UNCHANGED <<sim_requests, removal_errors, similarity_result>>
    /\ SimilarityFrame

\* one batch: a failure is appended to removal_errors
SimilarityRemoveBatch ==
    /\ pc = "sim_batches"
    /\ sim_i < Len(sim_to_remove)
    /\ \E failed \in BOOLEAN :
          /\ sim_requests' = Append(sim_requests,
                 [batch |-> BatchAt(sim_to_remove, sim_i), failed |-> failed])
          /\ removal_errors' = IF failed
                               THEN Append(removal_errors, sim_i \div batch_size + 1)
                               ELSE removal_errors
    /\ sim_i' = sim_i + batch_size
    /\ UNCHANGED <<pc, marked, sim_to_remove, similarity_result>>
    /\ SimilarityFrame

\* the returned dict
SimilarityCleanReturn ==
    /\ pc = "sim_batches"
    /\ sim_i >= Len(sim_to_remove)
    /\ similarity_result' =
          [original_count |-> Len(lib_tracks),
           removed_liked |-> Cardinality({p \in 1..Len(marked) : marked[p] = "liked"}),
           removed_duplicates |->
               Cardinality({p \in 1..Len(marked) : marked[p] = "duplicate"}),
           final_count |-> Len(lib_tracks) - Len(sim_to_remove),
           errors |-> removal_errors]
    /\ pc' = "sim_cleaned"
    /\ UNCHANGED <<marked, sim_to_remove, sim_i, sim_requests, removal_errors>>
    /\ SimilarityFrame

LibNext ==
    \/ BuildLibraryIndex
    \/ SimilarityProcessTrack
    \/ SimilarityReturn
    \/ LibraryMatchesProcessTrack
    \/ LibraryMatchesReturn
    \/ SimilarityMark
    \/ SimilarityRemoveBatch
    \/ SimilarityCleanReturn

SpecLibrary == LibInit /\ [][LibNext]_vars

\* find_library_duplicates_with_similarity has returned
SimilarityReturned ==
    /\ InSimilarity
    /\ pc \in {"lib_done", "sim_batches", "sim_cleaned"}
    /\ lib_impl = "clean_playlist_with_similarity" => sim_deduplicate

\* the playlist tracks of the matches of a list
TracksOf(ms) == { ms[i].playlist_track : i \in 1..Len(ms) }

---------------------------------------------------------------------------
(* musiclib/cleanup.py: YTMusicCleaner plans the cleanup of the library's  *)
(* duplicate groups, applies the plan and rolls it back.  A video id is a  *)
(* string, '' when the entry has none; a setVideoId is a positive number,  *)
(* 0 when the track has none.  A dict is the list of its [key, value]      *)
(* items in insertion order.                                               *)

\* most groups handed to plan_cleanup
MaxGroups == 2

\* an entry of a group's 'duplicates'
Entry(id, title) == [id |-> id, title |-> title]

\* _extract_video_id(entry): entry.get('id'), the caller tests `if not vid`
_extract_video_id(entry) == entry.id

\* _extract_is_explicit(entry) on a dict without 'is_explicit'
_extract_is_explicit(entry) == Contains(lower(entry.title), "explicit")

\* the 'duplicates' lists of the groups: two versions of a song, the second
\* explicit; two other videos; the same video twice; an entry without id
\* before a video of its own and one of the first list; no usable entry
DuplicatesPool ==
    { <<Entry("a", "Song"), Entry("b", "Song (Explicit)")>>,
      <<Entry("c", "Tune"), Entry("d", "Tune")>>,
      <<Entry("a", "Song"), Entry("a", "Song")>>,
      <<Entry("", "Song"), Entry("c", "Song"), Entry("a", "Song")>>,
      <<Entry("", "Gone")>> }

VideoIds == {"a", "b", "c", "d"}

\* d[key] = value on a dict in insertion order
DictPut(d, key, value) ==
    IF \E i \in 1..Len(d) : d[i].key = key
    THEN [i \in 1..Len(d) |-> IF d[i].key = key THEN [key |-> key, value |-> value] ELSE d[i]]
    ELSE Append(d, [key |-> key, value |-> value])

\* d.get(key), "" for None
DictGet(d, key) ==
    IF \E i \in 1..Len(d) : d[i].key = key
    THEN d[CHOOSE i \in 1..Len(d) : d[i].key = key].value
    ELSE ""

\* the entries of a group that have a video id: (vid, flag) in order
RECURSIVE VidsOf(_)
VidsOf(entries) ==
    IF entries = <<>> THEN <<>>
    ELSE (IF _extract_video_id(Head(entries)) # ""
          THEN <<[vid |-> _extract_video_id(Head(entries)),
                  flag |-> _extract_is_explicit(Head(entries))]>>
          ELSE <<>>) \o VidsOf(Tail(entries))

\* pref_idx: flags.index(True) when prefer_explicit and some flag is set, else
\* the first position
PrefIdx(vids, prefer) ==
    IF prefer /\ \E i \in 1..Len(vids) : vids[i].flag
    THEN CHOOSE i \in 1..Len(vids) :
             vids[i].flag /\ \A j \in 1..(i - 1) : ~vids[j].flag
    ELSE 1

\* [v for i, v in enumerate(vids) if i != pref_idx]
RECURSIVE Without(_, _, _)
Without(vids, pref_idx, i) ==
    IF i > Len(vids) THEN <<>>
    ELSE (IF i # pref_idx THEN <<vids[i].vid>> ELSE <<>>) \o Without(vids, pref_idx, i + 1)

\* chosen: the groups whose id is in include_group_ids, all of them when the
\* list is empty or None
Chosen(gs, include) ==
    IF include = <<>> THEN gs
    ELSE SelectSeq(gs, LAMBDA g : g.id \in Range(include))

\* _build_winners_losers over the first n chosen groups: the dicts winners and
\* losers
RECURSIVE _build_winners_losers(_, _, _)
_build_winners_losers(chosen, prefer, n) ==
    IF n = 0 THEN [winners |-> <<>>, losers |-> <<>>]
    ELSE LET built == _build_winners_losers(chosen, prefer, n - 1)
             g == chosen[n]
             vids == VidsOf(g.duplicates)
             pref_idx == PrefIdx(vids, prefer)
         IN  IF vids = <<>> THEN built
             ELSE [winners |-> DictPut(built.winners, g.id, vids[pref_idx].vid),
                   losers |-> DictPut(built.losers, g.id, Without(vids, pref_idx, 1))]

\* `for vids in losers_map.values(): unlike_ids.extend(vids)`
RECURSIVE ExtendAll(_)
ExtendAll(losers_map) ==
    IF losers_map = <<>> THEN <<>>
    ELSE Head(losers_map).value \o ExtendAll(Tail(losers_map))

\* _group_for_loser(losers_map, video_id): the first group that lists it, 0
\* for None
_group_for_loser(losers_map, video_id) ==
    IF \E i \in 1..Len(losers_map) : video_id \in Range(losers_map[i].value)
    THEN losers_map[CHOOSE i \in 1..Len(losers_map) :
                       /\ video_id \in Range(losers_map[i].value)
                       /\ \A j \in 1..(i - 1) : video_id \notin Range(losers_map[j].value)].key
    ELSE 0

\* the loop `for t in tracks` of plan_cleanup over the first n tracks of a
\* playlist: to_remove and to_add
RECURSIVE ScanPlaylist(_, _, _, _, _)
ScanPlaylist(tracks, n, winners, losers_map, unlike_ids) ==
    IF n = 0 THEN [to_remove |-> <<>>, to_add |-> <<>>]
    ELSE LET scanned == ScanPlaylist(tracks, n - 1, winners, losers_map, unlike_ids)
             t == tracks[n]
             existing_ids == { tracks[i].videoId : i \in 1..Len(tracks) } \ {""}
             win_vid == DictGet(winners, _group_for_loser(losers_map, t.videoId))
         IN  IF t.videoId = "" \/ t.setVideoId = 0 THEN scanned
             ELSE IF t.videoId \notin Range(unlike_ids) THEN scanned
             ELSE [to_remove |-> Append(scanned.to_remove,
                                   [videoId |-> t.videoId, setVideoId |-> t.setVideoId]),
                   to_add |->
                       IF /\ win_vid # ""
                          /\ win_vid \notin existing_ids
                          /\ win_vid \notin Range(scanned.to_add)
                       THEN Append(scanned.to_add, win_vid) ELSE scanned.to_add]

\* the replacements of a PlaylistEdit
Replacements(removes, winners, losers_map) ==
    [i \in 1..Len(removes) |->
        [from_setVideoId |-> removes[i].setVideoId,
         to_videoId |-> DictGet(winners, _group_for_loser(losers_map, removes[i].videoId))]]

\* playlist_edits after the first n playlists of the account
RECURSIVE PlaylistEdits(_, _, _, _, _)
PlaylistEdits(playlists, n, winners, losers_map, unlike_ids) ==
    IF n = 0 THEN <<>>
    ELSE LET edits == PlaylistEdits(playlists, n - 1, winners, losers_map, unlike_ids)
             scanned == ScanPlaylist(playlists[n], Len(playlists[n]), winners,
                                     losers_map, unlike_ids)
         IN  IF scanned.to_remove # <<>> \/ scanned.to_add # <<>>
             THEN Append(edits,
                      [playlist_id |-> n,
                       remove_items |-> scanned.to_remove,
                       add_video_ids |-> scanned.to_add,
                       replacements |-> Replacements(scanned.to_remove, winners, losers_map)])
             ELSE edits

\* plan_cleanup(groups, prefer_explicit, include_group_ids,
\* replace_in_playlists, unlike_losers) on the account's playlists
plan_cleanup(gs, prefer, include, replace, unlike, playlists) ==
    LET built == _build_winners_losers(Chosen(gs, include), prefer,
                                       Len(Chosen(gs, include)))
        unlike_ids == IF unlike THEN ExtendAll(built.losers) ELSE <<>>
    IN  [winners_by_group |-> built.winners,
         losers_by_group |-> built.losers,
         unlike_video_ids |-> unlike_ids,
         playlist_edits |->
             IF replace /\ unlike_ids # <<>>
             THEN PlaylistEdits(playlists, Len(playlists), built.winners,
                                built.losers, unlike_ids)
             ELSE <<>>]

\* a track of a playlist of the account
RemoteTrack(videoId, setVideoId) == [videoId |-> videoId, setVideoId |-> setVideoId]

\* the playlists of the account: a loser next to another video and a loser
\* twice; or both versions of a song and a video once without setVideoId
RemotePool ==
    { << <<RemoteTrack("a", 1), RemoteTrack("c", 2)>>,
         <<RemoteTrack("b", 3), RemoteTrack("b", 4)>> >>,
      << <<RemoteTrack("a", 1), RemoteTrack("b", 2)>>,
         <<RemoteTrack("d", 0), RemoteTrack("d", 3)>> >> }

\* the groups of YouTubeMusicDeduplicator.find_duplicates: 'id' is the position
GroupsOf(lists) == [i \in 1..Len(lists) |-> [id |-> i, duplicates |-> lists[i]]]

PlanInit ==
    /\ pc = "plan"
    /\ \E lists \in SeqsUpTo(DuplicatesPool, MaxGroups) : dup_groups = GroupsOf(lists)
    /\ prefer_explicit \in BOOLEAN
    /\ include_group_ids \in {<<>>, <<1>>, <<2>>}
    /\ replace_in_playlists \in BOOLEAN
    /\ unlike_losers \in BOOLEAN
    /\ remote_playlists \in RemotePool
    /\ ratings = [v \in VideoIds |-> "LIKE"]
    /\ next_set_video_id = 5
    /\ plan = <<>>
    /\ do_unlike = FALSE
    /\ do_playlists = FALSE
    /\ generate_undo = FALSE
    /\ edit_i = 0
    /\ summary = <<>>
    /\ undo = <<>>
    /\ calls = <<>>
    /\ before = <<>>
    /\ rollback_result = <<>>
    /\ DedupIdle
    /\ CompareIdle
    /\ NormIdle
    /\ LibIdle
    /\ MatcherIdle
    /\ AuditIdle
    /\ CleanIdle
    /\ CacheIdle
    /\ PageIdle

PlanArgs == <<dup_groups, prefer_explicit, include_group_ids, replace_in_playlists,
              unlike_losers>>

\* plan = cleaner.plan_cleanup(...)
PlanCleanup ==
    /\ pc = "plan"
    /\ plan' = plan_cleanup(dup_groups, prefer_explicit, include_group_ids,
                            replace_in_playlists, unlike_losers, remote_playlists)
    /\ pc' = "planned"
    /\ UNCHANGED <<PlanArgs, remote_playlists, ratings, next_set_video_id, do_unlike,
                   do_playlists, generate_undo, edit_i, summary, undo, calls, before,
                   rollback_result, notPlanVars>>

---------------------------------------------------------------------------
(* apply_cleanup and rollback against the account.  A request of the       *)
(* service either takes effect or raises.                                  *)

\* ytmusic.add_playlist_items(playlist_id, video_ids): the items are appended,
\* each with a setVideoId of its own
AddItems(tracks, video_ids, set_video_id) ==
    tracks \o [i \in 1..Len(video_ids) |-> RemoteTrack(video_ids[i], set_video_id + i - 1)]

\* ytmusic.remove_playlist_items(playlist_id, items): the items go, by setVideoId
RemoveItems(tracks, items) ==
    SelectSeq(tracks, LAMBDA t : \A i \in 1..Len(items) : items[i].setVideoId # t.setVideoId)

\* ytmusic.move_playlist_item(playlist_id, winner_set, before_set_video_id=loser_set)
MoveBefore(tracks, winner_set, loser_set) ==
    IF \/ winner_set = loser_set
       \/ ~\E i \in 1..Len(tracks) : tracks[i].setVideoId = winner_set
       \/ ~\E i \in 1..Len(tracks) : tracks[i].setVideoId = loser_set
    THEN tracks
    ELSE LET w == CHOOSE i \in 1..Len(tracks) : tracks[i].setVideoId = winner_set
             rest == SelectSeq(tracks, LAMBDA t : t.setVideoId # winner_set)
             l == CHOOSE i \in 1..Len(rest) : rest[i].setVideoId = loser_set
         IN  SubSeq(rest, 1, l - 1) \o <<tracks[w]>> \o SubSeq(rest, l, Len(rest))

\* id_to_set.get(video_id): the setVideoId of the last track with that video
\* id among those that have both, 0 for None
IdToSet(tracks, video_id) ==
    LET having == { i \in 1..Len(tracks) :
                      tracks[i].videoId = video_id /\ video_id # ""
                      /\ tracks[i].setVideoId # 0 }
    IN  IF having = {} THEN 0
        ELSE tracks[CHOOSE i \in having : \A j \in having : j <= i].setVideoId

\* the loop `for rep in edit.replacements` with every move taking effect
RECURSIVE MoveWinners(_, _, _)
MoveWinners(tracks, replacements, id_from) ==
    IF replacements = <<>> THEN tracks
    ELSE LET rep == Head(replacements)
             winner_set == IdToSet(id_from, rep.to_videoId)
         IN  MoveWinners(IF rep.from_setVideoId # 0 /\ winner_set # 0
                         THEN MoveBefore(tracks, winner_set, rep.from_setVideoId)
                         ELSE tracks,
                         Tail(replacements), id_from)

\* an undo log that records no added item
AddedItems_None(tracks, video_ids) == <<>>

\* the items of the refreshed playlist that are among the added winners
AddedItems(tracks, video_ids) ==
    SelectSeq(tracks, LAMBDA t : /\ t.videoId \in Range(video_ids)
                                 /\ t.videoId # ""
                                 /\ t.setVideoId # 0)

\* [ri['videoId'] for ri in edit.remove_items if ri.get('videoId')]
VideoIdsOf(items) ==
    LET having == SelectSeq(items, LAMBDA ri : ri.videoId # "")
    IN  [i \in 1..Len(having) |-> having[i].videoId]

Edits == plan.playlist_edits

ApplyArgs == <<do_unlike, do_playlists, generate_undo>>

PlanFrame == UNCHANGED <<PlanArgs, plan, notPlanVars>>

\* apply_cleanup(plan, do_unlike, do_playlists, generate_undo) is called
ApplyStart ==
    /\ pc = "planned"
    /\ do_unlike' \in BOOLEAN
    /\ do_playlists' \in BOOLEAN
    /\ generate_undo' \in BOOLEAN
    /\ summary' = [unliked |-> 0, playlist_adds |-> 0, playlist_removes |-> 0,
                   errors |-> <<>>]
    /\ undo' = [ratings_like |-> <<>>, playlist_adds |-> <<>>, playlist_removes |-> <<>>]
    /\ before' = remote_playlists
    /\ edit_i' = 1
    /\ pc' = IF do_playlists' THEN "apply_add" ELSE "apply_unlike"
    /\ UNCHANGED <<remote_playlists, ratings, next_set_video_id, calls, rollback_result>>
    /\ PlanFrame

\* a handler that records the error and lets the edit go on
Raised_GoOn(op) ==
    /\ summary' = [summary EXCEPT !.errors = Append(@, op)]
    /\ pc' = IF op = "add" THEN "apply_move" ELSE "applied"

\* the outer `except Exception as e: summary['errors'].append(str(e))`: the
\* rest of the edits and the unliking are skipped
Raised(op) ==
    /\ summary' = [summary EXCEPT !.errors = Append(@, op)]
    /\ pc' = "applied"

\* `if edit.add_video_ids:` add the winners, and with generate_undo read the
\* playlist again for the setVideoId of the added items
ApplyAdd ==
    /\ pc = "apply_add"
    /\ edit_i <= Len(Edits)
    /\ LET edit == Edits[edit_i]
           pid == edit.playlist_id
           added == AddItems(remote_playlists[pid], edit.add_video_ids, next_set_video_id)
       IN  IF edit.add_video_ids = <<>>
           THEN /\ pc' = "apply_move"
                /\ UNCHANGED <<remote_playlists, next_set_video_id, summary, undo, calls>>
           ELSE \/ \* add_playlist_items raises
                   /\ calls' = Append(calls, [op |-> "add", edit |-> edit_i, ok |-> FALSE])
                   /\ Raised("add")
                   /\ UNCHANGED <<remote_playlists, next_set_video_id, undo>>
                \/ \* add_playlist_items succeeds, and so does get_playlist
                   /\ calls' = Append(calls, [op |-> "add", edit |-> edit_i, ok |-> TRUE])
                   /\ remote_playlists' = [remote_playlists EXCEPT ![pid] = added]
                   /\ next_set_video_id' = next_set_video_id + Len(edit.add_video_ids)
                   /\ summary' = [summary EXCEPT
                                     !.playlist_adds = @ + Len(edit.add_video_ids)]
                   /\ undo' = IF generate_undo
                              THEN [undo EXCEPT !.playlist_adds = Append(@,
                                       [playlist_id |-> pid,
                                        items |-> AddedItems(added, edit.add_video_ids)])]
                              ELSE undo
                   /\ pc' = "apply_move"
                \/ \* add_playlist_items succeeds, get_playlist raises
                   /\ generate_undo
                   /\ calls' = Append(calls, [op |-> "add", edit |-> edit_i, ok |-> TRUE])
                   /\ remote_playlists' = [remote_playlists EXCEPT ![pid] = added]
                   /\ next_set_video_id' = next_set_video_id + Len(edit.add_video_ids)
                   /\ summary' = [summary EXCEPT
                                     !.playlist_adds = @ + Len(edit.add_video_ids),
                                     !.errors = Append(@, "get")]
                   /\ pc' = "applied"
                   /\ UNCHANGED undo
    /\ UNCHANGED <<ratings, edit_i, before, rollback_result, ApplyArgs>>
    /\ PlanFrame

\* the best-effort move of the added winners next to the losers: all the
\* moves take effect, or none does (no move_playlist_item, or it raises)
ApplyMove ==
    /\ pc = "apply_move"
    /\ LET edit == Edits[edit_i]
           pid == edit.playlist_id
       IN  \/ remote_playlists' = [remote_playlists EXCEPT ![pid] =
                  MoveWinners(@, edit.replacements, @)]
           \/ UNCHANGED remote_playlists
    /\ pc' = "apply_remove"
    /\ UNCHANGED <<ratings, next_set_video_id, edit_i, summary, undo, calls, before,
                   rollback_result, ApplyArgs>>
    /\ PlanFrame

\* `if edit.remove_items:` remove the losers; then the next edit
ApplyRemove ==
    /\ pc = "apply_remove"
    /\ LET edit == Edits[edit_i]
           pid == edit.playlist_id
       IN  IF edit.remove_items = <<>>
           THEN /\ pc' = "apply_add"
                /\ edit_i' = edit_i + 1
                /\ UNCHANGED <<remote_playlists, summary, undo, calls>>
           ELSE \/ \* remove_playlist_items raises
                   /\ calls' = Append(calls, [op |-> "remove", edit |-> edit_i, ok |-> FALSE])
                   /\ Raised("remove")
                   /\ UNCHANGED <<remote_playlists, undo, edit_i>>
                \/ /\ calls' = Append(calls, [op |-> "remove", edit |-> edit_i, ok |-> TRUE])
                   /\ remote_playlists' = [remote_playlists EXCEPT ![pid] =
                          RemoveItems(@, edit.remove_items)]
                   /\ summary' = [summary EXCEPT
                                     !.playlist_removes = @ + Len(edit.remove_items)]
                   /\ undo' = IF generate_undo
                              THEN [undo EXCEPT !.playlist_removes = Append(@,
                                       [playlist_id |-> pid,
                                        videoIds |-> VideoIdsOf(edit.remove_items)])]
                              ELSE undo
                   /\ pc' = "apply_add"
                   /\ edit_i' = edit_i + 1
    /\ UNCHANGED <<ratings, next_set_video_id, before, rollback_result, ApplyArgs>>
    /\ PlanFrame

\* the loop over plan.playlist_edits is over
ApplyEditsDone ==
    /\ pc = "apply_add"
    /\ edit_i > Len(Edits)
    /\ pc' = "apply_unlike"
    /\ edit_i' = 1
    /\ UNCHANGED <<remote_playlists, ratings, next_set_video_id, summary, undo, calls,
                   before, rollback_result, ApplyArgs>>
    /\ PlanFrame

\* one iteration of `for vid in plan.unlike_video_ids`: a failure is recorded
\* and the loop goes on
ApplyUnlike ==
    /\ pc = "apply_unlike"
    /\ do_unlike
    /\ edit_i <= Len(plan.unlike_video_ids)
    /\ LET vid == plan.unlike_video_ids[edit_i]
       IN  \/ /\ calls' = Append(calls, [op |-> "rate", edit |-> edit_i, ok |-> TRUE])
              /\ ratings' = [ratings EXCEPT ![vid] = "INDIFFERENT"]
              /\ summary' = [summary EXCEPT !.unliked = @ + 1]
              /\ undo' = IF generate_undo
                         THEN [undo EXCEPT !.ratings_like = Append(@, vid)]
                         ELSE undo
           \/ /\ calls' = Append(calls, [op |-> "rate", edit |-> edit_i, ok |-> FALSE])
              /\ summary' = [summary EXCEPT !.errors = Append(@, "rate")]
              /\ UNCHANGED <<ratings, undo>>
    /\ edit_i' = edit_i + 1
    /\ UNCHANGED <<pc, remote_playlists, next_set_video_id, before, rollback_result,
                   ApplyArgs>>
    /\ PlanFrame

\* `return summary`
ApplyReturn ==
    /\ pc = "apply_unlike"
    /\ ~do_unlike \/ edit_i > Len(plan.unlike_video_ids)
    /\ pc' = "applied"
    /\ UNCHANGED <<remote_playlists, ratings, next_set_video_id, edit_i, summary, undo,
                   calls, before, rollback_result, ApplyArgs>>
    /\ PlanFrame

RollbackFrame == UNCHANGED <<summary, undo, before, ApplyArgs>>

\* the outer `except Exception: result['errors'] += 1` of rollback: the rest
\* of the undo log is skipped
RollbackRaised ==
    /\ rollback_result' = [rollback_result EXCEPT !.errors = @ + 1]
    /\ pc' = "rolled_back"

\* rollback(summary['undo']) is called
RollbackStart ==
    /\ pc = "applied"
    /\ generate_undo
    /\ rollback_result' = [playlist_add_removals |-> 0, playlist_readds |-> 0,
                           ratings_liked |-> 0, errors |-> 0]
    /\ edit_i' = 1
    /\ pc' = "rollback_readd"
    /\ UNCHANGED <<remote_playlists, ratings, next_set_video_id, calls>>
    /\ RollbackFrame
    /\ PlanFrame

\* one iteration of `for entry in undo.get('playlist_removes', [])`: the
\* removed losers are added again
RollbackReadd ==
    /\ pc = "rollback_readd"
    /\ edit_i <= Len(undo.playlist_removes)
    /\ LET entry == undo.playlist_removes[edit_i]
           pid == entry.playlist_id
       IN  IF entry.videoIds = <<>>
           THEN /\ edit_i' = edit_i + 1
                /\ UNCHANGED <<pc, remote_playlists, next_set_video_id, rollback_result, calls>>
           ELSE \/ /\ calls' = Append(calls, [op |-> "readd", edit |-> edit_i, ok |-> TRUE])
                   /\ remote_playlists' = [remote_playlists EXCEPT ![pid] =
                          AddItems(@, entry.videoIds, next_set_video_id)]
                   /\ next_set_video_id' = next_set_video_id + Len(entry.videoIds)
                   /\ rollback_result' = [rollback_result EXCEPT
                                             !.playlist_readds = @ + Len(entry.videoIds)]
                   /\ edit_i' = edit_i + 1
                   /\ UNCHANGED pc
                \/ /\ calls' = Append(calls, [op |-> "readd", edit |-> edit_i, ok |-> FALSE])
                   /\ RollbackRaised
                   /\ UNCHANGED <<remote_playlists, next_set_video_id, edit_i>>
    /\ UNCHANGED ratings
    /\ RollbackFrame
    /\ PlanFrame

\* the first loop of rollback is over
RollbackReaddDone ==
    /\ pc = "rollback_readd"
    /\ edit_i > Len(undo.playlist_removes)
    /\ pc' = "rollback_remove"
    /\ edit_i' = 1
    /\ UNCHANGED <<remote_playlists, ratings, next_set_video_id, rollback_result, calls>>
    /\ RollbackFrame
    /\ PlanFrame

\* one iteration of `for entry in undo.get('playlist_adds', [])`: the added
\* winners are removed
RollbackRemove ==
    /\ pc = "rollback_remove"
    /\ edit_i <= Len(undo.playlist_adds)
    /\ LET entry == undo.playlist_adds[edit_i]
           pid == entry.playlist_id
           removes == SelectSeq(entry.items,
                                LAMBDA it : it.videoId # "" /\ it.setVideoId # 0)
       IN  IF removes = <<>>
           THEN /\ edit_i' = edit_i + 1
                /\ UNCHANGED <<pc, remote_playlists, rollback_result, calls>>
           ELSE \/ /\ calls' = Append(calls, [op |-> "unadd", edit |-> edit_i, ok |-> TRUE])
                   /\ remote_playlists' = [remote_playlists EXCEPT ![pid] =
                          RemoveItems(@, removes)]
                   /\ rollback_result' = [rollback_result EXCEPT
                                             !.playlist_add_removals = @ + Len(removes)]
                   /\ edit_i' = edit_i + 1
                   /\ UNCHANGED pc
                \/ /\ calls' = Append(calls, [op |-> "unadd", edit |-> edit_i, ok |-> FALSE])
                   /\ RollbackRaised
                   /\ UNCHANGED <<remote_playlists, edit_i>>
    /\ UNCHANGED <<ratings, next_set_video_id>>
    /\ RollbackFrame
    /\ PlanFrame

\* the second loop of rollback is over
RollbackRemoveDone ==
    /\ pc = "rollback_remove"
    /\ edit_i > Len(undo.playlist_adds)
    /\ pc' = "rollback_like"
    /\ edit_i' = 1
    /\ UNCHANGED <<remote_playlists, ratings, next_set_video_id, rollback_result, calls>>
    /\ RollbackFrame
    /\ PlanFrame

\* one iteration of `for vid in undo.get('ratings_like', [])`: a failure is
\* counted and the loop goes on
RollbackLike ==
    /\ pc = "rollback_like"
    /\ edit_i <= Len(undo.ratings_like)
    /\ LET vid == undo.ratings_like[edit_i]
       IN  \/ /\ calls' = Append(calls, [op |-> "like", edit |-> edit_i, ok |-> TRUE])
              /\ ratings' = [ratings EXCEPT ![vid] = "LIKE"]
              /\ rollback_result' = [rollback_result EXCEPT !.ratings_liked = @ + 1]
           \/ /\ calls' = Append(calls, [op |-> "like", edit |-> edit_i, ok |-> FALSE])
              /\ rollback_result' = [rollback_result EXCEPT !.errors = @ + 1]
              /\ UNCHANGED ratings
    /\ edit_i' = edit_i + 1
    /\ UNCHANGED <<pc, remote_playlists, next_set_video_id>>
    /\ RollbackFrame
    /\ PlanFrame

\* `return result` of rollback
RollbackReturn ==
    /\ pc = "rollback_like"
    /\ edit_i > Len(undo.ratings_like)
    /\ pc' = "rolled_back"
    /\ UNCHANGED <<remote_playlists, ratings, next_set_video_id, edit_i,
                   rollback_result, calls>>
    /\ RollbackFrame
    /\ PlanFrame

PlanNext ==
    \/ PlanCleanup
    \/ ApplyStart
    \/ ApplyAdd
    \/ ApplyMove
    \/ ApplyRemove
    \/ ApplyEditsDone
    \/ ApplyUnlike
    \/ ApplyReturn
    \/ RollbackStart
    \/ RollbackReadd
    \/ RollbackReaddDone
    \/ RollbackRemove
    \/ RollbackRemoveDone
    \/ RollbackLike
    \/ RollbackReturn

SpecPlan == PlanInit /\ [][PlanNext]_vars

---------------------------------------------------------------------------
(* Properties of the cleanup plan, of its application and of the rollback. *)

Planned == pc # "plan"

\* the video ids of the chosen groups, group by group
ChosenVids ==
    LET chosen == Chosen(dup_groups, include_group_ids)
    IN  [g \in 1..Len(chosen) |-> VidsOf(chosen[g].duplicates)]

\* no video id occurs twice among the entries of the chosen groups
DistinctVideos ==
    \A g, h \in 1..Len(ChosenVids) :
        \A i \in 1..Len(ChosenVids[g]), j \in 1..Len(ChosenVids[h]) :
            (g # h \/ i # j) => ChosenVids[g][i].vid # ChosenVids[h][j].vid

\* the winner of every group is neither a loser of its group nor to be unliked
WinnersKept ==
    \A i \in 1..Len(plan.winners_by_group) :
        LET win == plan.winners_by_group[i]
        IN  /\ win.value \notin Range(DictGet(plan.losers_by_group, win.key))
            /\ win.value \notin Range(plan.unlike_video_ids)

\* C24: in every plan returned by plan_cleanup, the video id chosen as the
\* winner of a group is not among the losers of that group and not in
\* unlike_video_ids.
C24_WinnerNeverLoser == Planned => WinnersKept

\* the same when no video id occurs twice among the entries of the chosen groups
WinnerNeverLoserOfDistinctVideos == (Planned /\ DistinctVideos) => WinnersKept

\* a plan with a winner, losers to unlike and a playlist edit, from groups
\* without a repeated video id
DistinctVideosPlanned ==
    /\ Planned
    /\ DistinctVideos
    /\ plan.unlike_video_ids # <<>>
    /\ plan.playlist_edits # <<>>

\* the request of kind op for edit e (or list position e), with its outcome
Called(j, op, e, ok) == calls[j] = [op |-> op, edit |-> e, ok |-> ok]

Applying == pc \in {"apply_add", "apply_move", "apply_remove", "apply_unlike", "applied"}

\* C25: in apply_cleanup, for every playlist edit with winners to add, the
\* request removing its losers comes after the successful request adding its
\* winners; when adding the winners raised, no request removes anything from
\* that playlist and the error is in summary['errors'].
C25_AddBeforeRemove ==
    (Planned /\ pc # "planned") =>
        /\ \A j \in 1..Len(calls) :
              (calls[j].op = "remove" /\ Edits[calls[j].edit].add_video_ids # <<>>) =>
                  \E i \in 1..(j - 1) : Called(i, "add", calls[j].edit, TRUE)
        /\ \A i \in 1..Len(calls) :
              (calls[i].op = "add" /\ ~calls[i].ok) =>
                  /\ \A j \in 1..Len(calls) :
                        calls[j].op = "remove" =>
                            Edits[calls[j].edit].playlist_id
                                # Edits[calls[i].edit].playlist_id
                  /\ "add" \in Range(summary.errors)
                  /\ \A k \in 1..Len(Edits[calls[i].edit].remove_items) :
                        Applying =>
                            \E t \in Range(remote_playlists[Edits[calls[i].edit].playlist_id]) :
                                t.setVideoId = Edits[calls[i].edit].remove_items[k].setVideoId

\* apply_cleanup returned after adding the winners of an edit raised
C25_Witness ==
    /\ pc = "applied"
    /\ \E i \in 1..Len(calls) :
          /\ calls[i].op = "add"
          /\ ~calls[i].ok
          /\ Edits[calls[i].edit].remove_items # <<>>
    /\ summary.errors = <<"add">>

\* apply_cleanup added the winners of an edit and then removed its losers
WinnersAddedThenLosersRemoved ==
    /\ pc = "applied"
    /\ \E i, j \in 1..Len(calls) :
          /\ i < j
          /\ Called(i, "add", calls[j].edit, TRUE)
          /\ Called(j, "remove", calls[i].edit, TRUE)

\* how many tracks of a playlist have the video id v
Occurrences(tracks, v) == Cardinality({ i \in 1..Len(tracks) : tracks[i].videoId = v })

\* the two playlists hold the same multiset of video ids
SameVideos(tracks, others) ==
    \A v \in VideoIds \cup {""} : Occurrences(tracks, v) = Occurrences(others, v)

\* every request of apply_cleanup and of rollback succeeded
AllSucceeded ==
    /\ \A j \in 1..Len(calls) : calls[j].ok
    /\ summary.errors = <<>>
    /\ rollback_result.errors = 0

\* the calls of kind op that succeeded, in order
Succeeded(op) == SelectSeq(calls, LAMBDA c : c.op = op /\ c.ok)

\* the undo log lists only what was applied: a rating for every successful
\* rate_song, a removal for every successful remove_playlist_items, and an
\* addition only for a successful add_playlist_items
UndoListsApplied ==
    /\ undo.ratings_like =
          [i \in 1..Len(Succeeded("rate")) |-> plan.unlike_video_ids[Succeeded("rate")[i].edit]]
    /\ [i \in 1..Len(undo.playlist_removes) |-> undo.playlist_removes[i].playlist_id] =
          [i \in 1..Len(Succeeded("remove")) |-> Edits[Succeeded("remove")[i].edit].playlist_id]
    /\ Len(undo.playlist_adds) <= Len(Succeeded("add"))
    /\ \A i \in 1..Len(undo.playlist_adds) :
          undo.playlist_adds[i].playlist_id = Edits[Succeeded("add")[i].edit].playlist_id

\* C26: apply_cleanup with generate_undo followed by rollback of its undo log
\* is a round trip when every request succeeds: every playlist holds the
\* multiset of video ids it had before apply_cleanup and every video rated
\* INDIFFERENT is rated LIKE again; and the undo log lists an action only if
\* it was applied successfully.
C26_RoundTrip ==
    /\ (Planned /\ pc # "planned" /\ generate_undo) => UndoListsApplied
    /\ (pc = "rolled_back" /\ AllSucceeded) =>
          /\ \A p \in 1..Len(remote_playlists) :
                SameVideos(remote_playlists[p], before[p])
          /\ \A v \in Range(undo.ratings_like) : ratings[v] = "LIKE"

\* a rollback without failure after winners were added, losers removed and
\* videos unliked
C26_Witness ==
    /\ pc = "rolled_back"
    /\ AllSucceeded
    /\ Succeeded("add") # <<>>
    /\ Succeeded("remove") # <<>>
    /\ Succeeded("rate") # <<>>
    /\ Succeeded("readd") # <<>>
    /\ Succeeded("unadd") # <<>>
    /\ Succeeded("like") # <<>>
    /\ \A p \in 1..Len(remote_playlists) : SameVideos(remote_playlists[p], before[p])

---------------------------------------------------------------------------
(* The caches of PlaylistCleaner: get_library_songs_cached,                *)
(* get_liked_songs_cached and clear_cache.  A cache is None or holds a     *)
(* value; the remote service answers a fetch with any of a few responses   *)
(* or raises.                                                              *)

\* most calls made on one cleaner
MaxCalls == 4

Song(videoId) == [videoId |-> videoId]

Cached(value) == [is_none |-> FALSE, value |-> value]

\* what ytmusic.get_library_songs(limit=None) does: it raises, or returns
\* None or a list of songs
LibraryResponses ==
    { [kind |-> "raise", songs |-> <<>>],
      [kind |-> "none", songs |-> <<>>],
      [kind |-> "list", songs |-> <<>>],
      [kind |-> "list", songs |-> <<Song("a")>>],
      [kind |-> "list", songs |-> <<Song("a"), Song("b")>>] }

\* what ytmusic.get_liked_songs(limit=None) does: it raises, or returns None,
\* a dict with 'tracks', a dict with 'trackCount' only, or a dict with neither
LikedResponses ==
    { [kind |-> "raise", tracks |-> <<>>],
      [kind |-> "none", tracks |-> <<>>],
      [kind |-> "tracks", tracks |-> <<>>],
      [kind |-> "tracks", tracks |-> <<Song("a"), Song("")>>],
      [kind |-> "trackCount", tracks |-> <<>>],
      [kind |-> "neither", tracks |-> <<>>] }

\* `self.ytmusic.get_library_songs(limit=None) or []`, [] when it raised
LibraryValue(response) ==
    IF response.kind = "list" THEN response.songs ELSE <<>>

\* {track.get('videoId') for track in liked_tracks if track.get('videoId')} when
\* the response has 'tracks', set() otherwise: no tracks, or an exception
\* (raised by the request, or by `'tracks' in None`)
LikedValue(response) ==
    IF response.kind = "tracks"
    THEN { response.tracks[k].videoId :
               k \in { n \in 1..Len(response.tracks) : response.tracks[n].videoId # "" } }
    ELSE {}

\* the fetch ended in the handler `except Exception`
FetchFailed(response) == response.kind \in {"raise", "none"}

\* the library cache is tested by truth value: an empty list is fetched again
LibraryCached_Truthy == ~_library_cache.is_none /\ _library_cache.value # <<>>

\* `if self._library_cache is None:` is false
LibraryCached == ~_library_cache.is_none

\* `if self._liked_cache is None:` is false
LikedCached == ~_liked_cache.is_none

CacheCall(op, did_fetch, did_raise, did_fail, value) ==
    [op |-> op, fetched |-> did_fetch, raised |-> did_raise, failed |-> did_fail,
     value |-> value]

CacheInit ==
    /\ pc = "cache"
    /\ ytmusic \in BOOLEAN
    /\ _library_cache = NoneValue
    /\ _liked_cache = NoneValue
    /\ cache_log = <<>>
    /\ DedupIdle
    /\ CompareIdle
    /\ NormIdle
    /\ LibIdle
    /\ MatcherIdle
    /\ AuditIdle
    /\ CleanIdle
    /\ PlanIdle
    /\ PageIdle

CacheFrame == UNCHANGED <<pc, ytmusic, notCacheVars>>

\* get_library_songs_cached: the cached list, or RuntimeError on a cleaner that
\* is not authenticated, or a fetch whose result (or [] when it failed) is cached
GetLibrarySongsCached ==
    /\ pc = "cache"
    /\ Len(cache_log) < MaxCalls
    /\ IF LibraryCached
       THEN /\ cache_log' = Append(cache_log,
                   CacheCall("get_library", FALSE, FALSE, FALSE, _library_cache.value))
            /\ UNCHANGED _library_cache
       ELSE IF ~ytmusic
       THEN /\ cache_log' = Append(cache_log,
                   CacheCall("get_library", FALSE, TRUE, FALSE, <<>>))
            /\ UNCHANGED _library_cache
       ELSE \E response \in LibraryResponses :
               /\ _library_cache' = Cached(LibraryValue(response))
               /\ cache_log' = Append(cache_log,
                      CacheCall("get_library", TRUE, FALSE, response.kind = "raise",
                                LibraryValue(response)))
    /\ UNCHANGED _liked_cache
    /\ CacheFrame

\* get_liked_songs_cached, the same way, with a set of video ids
GetLikedSongsCached ==
    /\ pc = "cache"
    /\ Len(cache_log) < MaxCalls
    /\ IF LikedCached
       THEN /\ cache_log' = Append(cache_log,
                   CacheCall("get_liked", FALSE, FALSE, FALSE, _liked_cache.value))
            /\ UNCHANGED _liked_cache
       ELSE IF ~ytmusic
       THEN /\ cache_log' = Append(cache_log,
                   CacheCall("get_liked", FALSE, TRUE, FALSE, {}))
            /\ UNCHANGED _liked_cache
       ELSE \E response \in LikedResponses :
               /\ _liked_cache' = Cached(LikedValue(response))
               /\ cache_log' = Append(cache_log,
                      CacheCall("get_liked", TRUE, FALSE, FetchFailed(response),
                                LikedValue(response)))
    /\ UNCHANGED _library_cache
    /\ CacheFrame

\* clear_cache
ClearCache ==
    /\ pc = "cache"
    /\ Len(cache_log) < MaxCalls
    /\ _library_cache' = NoneValue
    /\ _liked_cache' = NoneValue
    /\ cache_log' = Append(cache_log, CacheCall("clear", FALSE, FALSE, FALSE, <<>>))
    /\ CacheFrame

CacheNext ==
    \/ GetLibrarySongsCached
    \/ GetLikedSongsCached
    \/ ClearCache

SpecCache == CacheInit /\ [][CacheNext]_vars

\* the calls of cache_log before call i that are clear_cache calls
ClearsBefore(i) == { c \in 1..(i - 1) : cache_log[c].op = "clear" }

\* the position of the last clear_cache call before call i, 0 when there is none
LastClear(i) == IF ClearsBefore(i) = {} THEN 0 ELSE Max(ClearsBefore(i))

\* the first call of the same getter as call i since the last clear_cache
FirstSinceClear(i) ==
    Min({ k \in (LastClear(i) + 1)..i : cache_log[k].op = cache_log[i].op })

\* C29: on an authenticated cleaner, a call of get_library_songs_cached or
\* get_liked_songs_cached issues a remote request exactly when it is the first
\* call of that getter since the last clear_cache (or since construction); a
\* failed fetch yields the empty value; every call returns what the first call
\* since the last clear_cache returned, and never raises.
C29_FetchedOncePerClear ==
    ytmusic =>
        \A i \in 1..Len(cache_log) :
            cache_log[i].op # "clear" =>
                /\ ~cache_log[i].raised
                /\ cache_log[i].fetched <=> FirstSinceClear(i) = i
                /\ cache_log[i].value = cache_log[FirstSinceClear(i)].value
                /\ cache_log[i].failed =>
                      /\ cache_log[i].fetched
                      /\ IF cache_log[i].op = "get_library"
                         THEN cache_log[i].value = <<>>
                         ELSE cache_log[i].value = {}

\* a library fetch failed, the next call returned the cached empty list without
\* a request, and after clear_cache the next call fetched songs
C29_Witness ==
    /\ ytmusic
    /\ Len(cache_log) = 4
    /\ cache_log[1].op = "get_library" /\ cache_log[1].failed
    /\ cache_log[2].op = "get_library" /\ ~cache_log[2].fetched
    /\ cache_log[2].value = <<>>
    /\ cache_log[3].op = "clear"
    /\ cache_log[4].op = "get_library" /\ cache_log[4].fetched
    /\ cache_log[4].value # <<>>

\* the same for the liked songs: a failed fetch, then the cached empty set
LikedCachedAfterFailure ==
    /\ ytmusic
    /\ Len(cache_log) >= 2
    /\ cache_log[1].op = "get_liked" /\ cache_log[1].failed
    /\ cache_log[2].op = "get_liked" /\ ~cache_log[2].fetched
    /\ cache_log[2].value = {}

\* a cleaner that is not authenticated raises and caches nothing
NotAuthenticatedRaises ==
    ~ytmusic =>
        /\ _library_cache = NoneValue
        /\ _liked_cache = NoneValue
        /\ \A i \in 1..Len(cache_log) :
              cache_log[i].op # "clear" => cache_log[i].raised

---------------------------------------------------------------------------
(* fetch_with_manual_pagination of simple_playlist_cleaner.py.  A video id *)
(* is a positive number, 0 for a track without one.  The service answers a *)
(* request with a page of tracks and a continuation token ("" for none),   *)
(* or the request raises; on page 1 the debug dump of the response to a    *)
(* fixed path may raise as well.                                           *)

\* `while page < 20`
max_pages == 20

\* the pages the service may answer with when n videos were collected: no
\* track, a new video, a video seen before, a video twice, a track without id,
\* and two new videos on the first page
PagePool(n) ==
    { <<>>, <<n + 1>>, <<1>>, <<n + 1, n + 1>>, <<0, n + 1>>, <<0>> }
        \cup (IF n = 0 THEN {<<1, 2>>} ELSE {})

\* all_tracks after `for track in page_tracks:` from track k on
RECURSIVE Collect(_, _, _)
Collect(tracks, page_tracks, k) ==
    IF k > Len(page_tracks) THEN tracks
    ELSE IF page_tracks[k] # 0 /\ page_tracks[k] \notin Range(tracks)
    THEN Collect(Append(tracks, page_tracks[k]), page_tracks, k + 1)
    ELSE Collect(tracks, page_tracks, k + 1)

\* the loop goes on whatever the page number
MorePages_Unlimited == TRUE

\* `while page < 20`
MorePages == page < max_pages

PageInit ==
    /\ pc = "paging"
    /\ all_tracks = <<>>
    /\ seen_video_ids = {}
    /\ continuation = ""
    /\ page = 0
    /\ page_log = <<>>
    /\ page_result = <<>>
    /\ DedupIdle
    /\ CompareIdle
    /\ NormIdle
    /\ LibIdle
    /\ MatcherIdle
    /\ AuditIdle
    /\ CleanIdle
    /\ PlanIdle
    /\ CacheIdle

PageEntry(sent, new_tracks, token, error) ==
    [continuation |-> sent, new_tracks |-> new_tracks, token |-> token, error |-> error]

\* one iteration of the loop in which the request, or the debug dump of page
\* 1, raises: `except Exception: break`
FetchPageError ==
    /\ pc = "paging"
    /\ MorePages
    /\ page' = page + 1
    /\ \E error \in (IF page = 0 THEN {"request", "debug_dump"} ELSE {"request"}) :
          page_log' = Append(page_log, PageEntry(continuation, 0, "", error))
    /\ pc' = "break"
    /\ UNCHANGED <<all_tracks, seen_video_ids, continuation, page_result>>
    /\ UNCHANGED notPageVars

\* one iteration of the loop in which nothing raises
FetchPage ==
    /\ pc = "paging"
    /\ MorePages
    /\ page' = page + 1
    /\ \E page_tracks \in PagePool(Len(all_tracks)), token \in {"", "next"} :
          LET collected == Collect(all_tracks, page_tracks, 1)
              new_tracks == Len(collected) - Len(all_tracks)
          IN  /\ all_tracks' = collected
              /\ seen_video_ids' = Range(collected)
              /\ continuation' = token
              /\ page_log' = Append(page_log,
                                    PageEntry(continuation, new_tracks, token, ""))
              /\ pc' = IF token = "" \/ new_tracks = 0 THEN "break" ELSE "paging"
    /\ UNCHANGED page_result
    /\ UNCHANGED notPageVars

\* `return all_tracks`, after a break or when the loop condition is false
PaginationReturn ==
    /\ \/ pc = "break"
       \/ pc = "paging" /\ ~MorePages
    /\ page_result' = all_tracks
    /\ pc' = "paged"
    /\ UNCHANGED <<all_tracks, seen_video_ids, continuation, page, page_log>>
    /\ UNCHANGED notPageVars

PageNext ==
    \/ FetchPageError
    \/ FetchPage
    \/ PaginationReturn

\* the loop runs: every step of the function is eventually taken
SpecPage == PageInit /\ [][PageNext]_vars /\ WF_vars(PageNext)

\* the page of the log after which the loop goes on
GoesOn(entry) == entry.error = "" /\ entry.token # "" /\ entry.new_tracks > 0

\* no two tracks of the list have the same video id, and each has one
DistinctIds(tracks) ==
    /\ \A k \in 1..Len(tracks) : tracks[k] # 0
    /\ \A k, l \in 1..Len(tracks) : tracks[k] = tracks[l] => k = l

\* at most 20 pages are requested, each with the token of the page before it;
\* no page is requested after one that gave no token, no new track or an
\* error; the collected and the returned tracks have distinct video ids
PaginationSafe ==
    /\ page <= max_pages
    /\ Len(page_log) = page
    /\ \A k \in 1..Len(page_log) :
          /\ k < Len(page_log) => GoesOn(page_log[k])
          /\ page_log[k].continuation = (IF k = 1 THEN "" ELSE page_log[k - 1].token)
    /\ pc = "paging" => \A k \in 1..Len(page_log) : GoesOn(page_log[k])
    /\ pc = "break" => ~GoesOn(page_log[Len(page_log)])
    /\ DistinctIds(all_tracks)
    /\ pc = "paged" => page_result = all_tracks

\* C30: fetch_with_manual_pagination always terminates, whatever the service
\* answers: it requests at most 20 pages, stops at the first page that gives
\* no continuation token, no new track or an error, and the list it returns
\* has no two tracks with the same video id.
C30_Terminates == []PaginationSafe /\ <>(pc = "paged")

\* the service gave new tracks and a token on each of 20 pages, and the
\* function returned after the twentieth
C30_Witness ==
    /\ pc = "paged"
    /\ page = max_pages
    /\ \A k \in 1..Len(page_log) : GoesOn(page_log[k])
    /\ Len(page_result) >= max_pages

\* the function returned on a page without new tracks, having skipped a track
\* whose video was already collected
StoppedWithoutNewTrack ==
    /\ pc = "paged"
    /\ page > 1
    /\ page_log[page].new_tracks = 0
    /\ page_log[page].token # ""
    /\ page_log[page].error = ""

=============================================================================
